---------------------------- MODULE Spec2Model ----------------------------
(***************************************************************************)
(* RegIntel RAG API (src/index.py): the chat endpoints and the pipeline    *)
(* they chain: get_embedding, load_collection_if_needed,                   *)
(* search_similar_documents, chat_with_gpt.                                *)
(*                                                                         *)
(* A request is a coroutine on one event loop.  An action is the code a    *)
(* request runs between two points where it waits for an external reply.   *)
(* The embedding and chat-completion calls are awaited; the three          *)
(* vector-database calls are made with the synchronous requests.post.      *)
(***************************************************************************)
EXTENDS Integers, Sequences, FiniteSets, TLC

(***************************************************************************)
(* Bounds of the model.                                                    *)
(***************************************************************************)
MaxHistory == 6
MaxHits == 7
MaxTopK == 6
MaxContent == 1203
MaxLimit == 7

(***************************************************************************)
(* Program constants.                                                      *)
(***************************************************************************)
TopK == 5
HistoryWindow == 5
ContextSources == 3
ContentLimit == 200
DebugContentLimit == 1200
Float32Exact == 16777216
DefaultLimit == 10
LatestCap == 6

Reqs == {1, 2}

Min(a, b) == IF a <= b THEN a ELSE b
Max(a, b) == IF a >= b THEN a ELSE b

(***************************************************************************)
(* Python values.  A str whose characters matter is a sequence of          *)
(* character codes; None is a value of its own type.                       *)
(***************************************************************************)
PyStr(chars) == [type |-> "str", chars |-> chars]
PyNone == [type |-> "NoneType", chars |-> <<>>]
PyList(items) == [type |-> "list", items |-> items]
PyNull == [type |-> "NoneType", items |-> <<>>]

\* dict.get(key, default) on a dict modelled as a function on its keys
Get(d, key, default) == IF key \in DOMAIN d THEN d[key] ELSE default

\* the process environment the module was imported in
VARIABLE env

(***************************************************************************)
(* Configuration: read from the environment when the module is imported.   *)
(***************************************************************************)
\* the environments: nothing set, the default collection set to the
\* warning letters or to "", the feed collection renamed
Environments ==
    {<<>>,
     [DEFAULT_COLLECTION |-> "fda_warning_letters"],
     [DEFAULT_COLLECTION |-> ""],
     [RSS_FEEDS_COLLECTION |-> "news_feed"]}

\* os.getenv(name, default)
GetEnv(name, default) == Get(env, name, default)

RSS_FEEDS_COLLECTION == GetEnv("RSS_FEEDS_COLLECTION", "rss_feeds")

DEFAULT_COLLECTION == GetEnv("DEFAULT_COLLECTION", RSS_FEEDS_COLLECTION)

\* seq[:n] for n >= 0
Take(seq, n) == SubSeq(seq, 1, Min(Len(seq), n))

\* seq[-n:] for n > 0
LastN(seq, n) == SubSeq(seq, Max(1, Len(seq) - n + 1), Len(seq))

(***************************************************************************)
(* Exceptions: the text str(e) gives.                                      *)
(***************************************************************************)
ApiErrors == {"Request timed out.", "Incorrect API key provided"}
ConnectionErrorText == "Connection refused"
JsonErrorText == "Expecting value: line 1 column 1 (char 0)"
IndexErrorText == "list index out of range"
NotSubscriptableText == "'NoneType' object is not subscriptable"
NoLenText == "object of type 'NoneType' has no len()"
NoGetText == "'str' object has no attribute 'get'"

(***************************************************************************)
(* What a function body gives: the value it returns, or the exception it   *)
(* raises, and the error lines it has printed.  An `except Exception`      *)
(* clause turns a raised exception into a printed line and a return value. *)
(***************************************************************************)
Returns(v, lines) == [exc |-> FALSE, err |-> "", value |-> v, log |-> lines]
Raises(e, v, lines) == [exc |-> TRUE, err |-> e, value |-> v, log |-> lines]

Except(body, line, fallback) ==
    IF body.exc
    THEN Returns(fallback, body.log \o <<[line |-> line, err |-> body.err]>>)
    ELSE body

(***************************************************************************)
(* Replies of the embedding API.                                           *)
(***************************************************************************)
Vectors == {<<>>, <<1, 16777217>>}

EmbeddingReplies ==
    {[kind |-> "raise", err |-> e, data |-> <<>>] : e \in ApiErrors}
    \cup {[kind |-> "ok", err |-> "", data |-> <<>>]}
    \cup {[kind |-> "ok", err |-> "", data |-> <<[embedding |-> v]>>] : v \in Vectors}

NoEmbeddingReply == [kind |-> "none", err |-> "", data |-> <<>>]

\* the try block of get_embedding after the await: response.data[0].embedding
EmbeddingTry(reply) ==
    IF reply.kind = "raise" THEN Raises(reply.err, <<>>, <<>>)
    ELSE IF Len(reply.data) = 0 THEN Raises(IndexErrorText, <<>>, <<>>)
    ELSE Returns(reply.data[1].embedding, <<>>)

\* get_embedding without its except clause
GetEmbeddingNoExcept(reply) == EmbeddingTry(reply)

\* get_embedding after the await: `except Exception` prints and returns []
GetEmbedding(reply) == Except(EmbeddingTry(reply), "Error getting embedding", <<>>)

\* get_embedding: `if not client: return []`
EmbeddingClientMissing(cl) == cl = "None"

\* search_similar_documents without `if not query_embedding: return []`
EmbeddingAlwaysUsable(query_embedding) == TRUE

\* search_similar_documents: `if not query_embedding: return []`
EmbeddingUsable(query_embedding) == query_embedding /= <<>>

\* np.array(x, dtype=np.float32) on a component written as an integer from 0
\* to 2^25: integers up to 2^24 are exact; above that only even integers are
\* floats, and an odd one goes to its neighbour that is a multiple of 4
Float32(x) ==
    IF x <= Float32Exact \/ x % 2 = 0 THEN x
    ELSE IF x % 4 = 1 THEN x - 1 ELSE x + 1

ToFloat32List(v) == [i \in 1..Len(v) |-> Float32(v[i])]

\* `target_collection = collection_name or DEFAULT_COLLECTION`
TargetCollection(collection_name) ==
    IF collection_name = "" THEN DEFAULT_COLLECTION ELSE collection_name

FdaFields == <<"text_content", "company_name", "letter_date", "chunk_type",
               "chunk_id", "violations", "required_actions", "systemic_issues",
               "regulatory_consequences", "product_types", "product_categories">>

RssFields == <<"text_content", "article_title", "published_date", "feed_name",
               "chunk_type", "companies", "products", "regulations",
               "regulatory_bodies">>

OutputFields(target_collection) ==
    IF target_collection = "fda_warning_letters" THEN FdaFields ELSE RssFields

SearchData(target_collection, query_embedding, top_k) ==
    [collectionName |-> target_collection,
     data |-> ToFloat32List(query_embedding),
     limit |-> top_k,
     outputFields |-> OutputFields(target_collection),
     metricType |-> "COSINE",
     params |-> [nprobe |-> 10],
     fieldName |-> "text_vector"]

NoSearchData == SearchData("", <<>>, 0)


(***************************************************************************)
(* Raw hits of the vector search.  A hit is a JSON object (a function on   *)
(* the keys it has) or some other JSON value; hit i of a reply carries     *)
(* values that name i, so that hits are told apart.                        *)
(***************************************************************************)
HitShapes == <<"rss", "long_content", "fda", "titled_company", "empty",
               "null_content", "not_a_dict">>

Chars(i, n) == [j \in 1..n |-> 10 * i + j]

RssHit(i) ==
    [text_content |-> PyStr(Chars(i, 3)),
     article_title |-> "Article " \o ToString(i),
     published_date |-> "2025-08-0" \o ToString(i),
     feed_name |-> "Feed " \o ToString(i),
     chunk_type |-> "article",
     companies |-> <<"Stryker">>,
     products |-> <<>>,
     regulations |-> <<"21 CFR 820">>,
     regulatory_bodies |-> <<"FDA">>]

FdaHit(i) ==
    [text_content |-> PyStr(Chars(i, 3)),
     company_name |-> "Company " \o ToString(i),
     letter_date |-> "2025-07-0" \o ToString(i),
     chunk_type |-> "violation",
     chunk_id |-> "chunk " \o ToString(i),
     violations |-> <<"Quality System">>,
     required_actions |-> <<"Respond in 15 days">>,
     systemic_issues |-> <<>>,
     regulatory_consequences |-> <<>>,
     product_types |-> <<"device">>,
     product_categories |-> <<>>]

Hit(i, shape) ==
    CASE shape = "rss" -> [dict |-> TRUE, f |-> RssHit(i)]
      [] shape = "fda" -> [dict |-> TRUE, f |-> FdaHit(i)]
      [] shape = "titled_company" ->
            [dict |-> TRUE,
             f |-> [text_content |-> PyStr(Chars(i, 2)),
                    article_title |-> "Article " \o ToString(i),
                    company_name |-> "Company " \o ToString(i)]]
      [] shape = "empty" -> [dict |-> TRUE, f |-> <<>>]
      [] shape = "null_content" ->
            [dict |-> TRUE,
             f |-> [text_content |-> PyNone,
                    article_title |-> "Article " \o ToString(i)]]
      [] shape = "long_content" ->
            [dict |-> TRUE,
             f |-> [text_content |-> PyStr(Chars(i, MaxContent)),
                    article_title |-> "Article " \o ToString(i),
                    feed_name |-> "Feed " \o ToString(i)]]
      [] OTHER -> [dict |-> FALSE, f |-> <<>>]

\* the hit lists of a reply: n hits, the shapes taken in turn from offset k
HitLists ==
    {[i \in 1..n |-> Hit(i, HitShapes[((i + k) % Len(HitShapes)) + 1])] :
        n \in 0..MaxHits, k \in 0..(Len(HitShapes) - 1)}

(***************************************************************************)
(* Collection normalizer (search_similar_documents, the loop over hits).   *)
(***************************************************************************)
\* the warning-letter metadata with the fields the hit has, and no defaults
FdaMetadataPresentOnly(h) ==
    [k \in {FdaFields[i] : i \in 2..Len(FdaFields)} \cap DOMAIN h |-> h[k]]

FdaMetadata(h) ==
    [company_name |-> Get(h, "company_name", "Unknown Company"),
     letter_date |-> Get(h, "letter_date", "Unknown Date"),
     chunk_type |-> Get(h, "chunk_type", "Unknown Type"),
     chunk_id |-> Get(h, "chunk_id", "Unknown Chunk"),
     violations |-> Get(h, "violations", <<>>),
     required_actions |-> Get(h, "required_actions", <<>>),
     systemic_issues |-> Get(h, "systemic_issues", <<>>),
     regulatory_consequences |-> Get(h, "regulatory_consequences", <<>>),
     product_types |-> Get(h, "product_types", <<>>),
     product_categories |-> Get(h, "product_categories", <<>>)]

RssMetadata(h) ==
    [article_title |-> Get(h, "article_title", "Unknown Title"),
     published_date |-> Get(h, "published_date", "Unknown Date"),
     feed_name |-> Get(h, "feed_name", "Unknown Feed"),
     chunk_type |-> Get(h, "chunk_type", "Unknown Type"),
     companies |-> Get(h, "companies", <<>>),
     products |-> Get(h, "products", <<>>),
     regulations |-> Get(h, "regulations", <<>>),
     regulatory_bodies |-> Get(h, "regulatory_bodies", <<>>)]

\* the feed mapping for `rss_feeds` only, the warning-letter one otherwise
MetadataKnownOnly(h, target_collection) ==
    IF target_collection = "rss_feeds"
    THEN RssMetadata(h) ELSE FdaMetadata(h)

Metadata(h, target_collection) ==
    IF target_collection = "fda_warning_letters"
    THEN FdaMetadata(h) ELSE RssMetadata(h)

\* the company placeholder as the last default in every collection
SourceTitleDefaultCompany(h, metadata) ==
    Get(h, "article_title", Get(metadata, "company_name", "Unknown Company"))

\* the company name read from the hit instead of the metadata
SourceTitleFromHit(h, metadata) ==
    Get(h, "article_title", Get(h, "company_name", "Unknown Title"))

SourceTitle(h, metadata) ==
    Get(h, "article_title", Get(metadata, "company_name", "Unknown Title"))

SourceItem(h, target_collection) ==
    LET metadata == Metadata(h, target_collection)
    IN  [title |-> SourceTitle(h, metadata),
         content |-> Get(h, "text_content", PyStr(<<>>)),
         metadata |-> metadata,
         collection |-> target_collection]

\* hit.get on a value that is no dict raises; the loop logs it and continues
HitParses(hit) == hit.dict

\* the loop ended by the first hit that raises
RECURSIVE ParseHitsUntilFailure(_, _)
ParseHitsUntilFailure(hits, target_collection) ==
    IF hits = <<>> \/ ~HitParses(Head(hits)) THEN <<>>
    ELSE <<SourceItem(Head(hits).f, target_collection)>>
         \o ParseHitsUntilFailure(Tail(hits), target_collection)

RECURSIVE ParseHits(_, _)
ParseHits(hits, target_collection) ==
    IF hits = <<>> THEN <<>>
    ELSE LET rest == ParseHits(Tail(hits), target_collection)
         IN  IF HitParses(Head(hits))
             THEN <<SourceItem(Head(hits).f, target_collection)>> \o rest
             ELSE rest

\* the lines the loop prints, one per hit that raised
RECURSIVE HitErrors(_)
HitErrors(hits) ==
    IF hits = <<>> THEN <<>>
    ELSE IF HitParses(Head(hits))
         THEN HitErrors(Tail(hits))
         ELSE <<[line |-> "Error parsing hit", err |-> NoGetText]>>
              \o HitErrors(Tail(hits))

(***************************************************************************)
(* Replies of the vector database to the search call.  A reply is an       *)
(* exception raised by requests.post, or an HTTP status with a body that   *)
(* parses as JSON (a function on the keys it has) or does not.             *)
(***************************************************************************)
SearchBodies ==
    {[code |-> 1100, message |-> "collection not found"]}
    \cup {[code |-> 0]}
    \cup {[code |-> 0, data |-> PyNull]}
    \cup {[code |-> 1100, data |-> PyList(hs)] : hs \in {h \in HitLists : Len(h) = 1}}
    \cup {[code |-> 0, data |-> PyList(hs)] : hs \in HitLists}
    \cup {[data |-> PyList(hs)] : hs \in {h \in HitLists : Len(h) = 2}}

SearchReplies ==
    {[kind |-> "raise", status |-> 0, json |-> FALSE, body |-> <<>>]}
    \cup {[kind |-> "http", status |-> s, json |-> TRUE,
           body |-> [code |-> 1100, message |-> "collection not found"]] :
             s \in {404, 500}}
    \cup {[kind |-> "http", status |-> 200, json |-> FALSE, body |-> <<>>]}
    \cup {[kind |-> "http", status |-> 200, json |-> TRUE, body |-> b] :
             b \in SearchBodies}

NoReply == [kind |-> "none", status |-> 0, json |-> FALSE, body |-> <<>>]

\* `if response.status_code != 200: return []`
SearchStatusOk(reply) == reply.status = 200

\* `if 'code' in result and result.get('code') != 0: return []`
SearchIsErrorBody(result) == "code" \in DOMAIN result /\ result["code"] /= 0

\* the try block without `sources = sources[:top_k]`
SearchTryNoLimit(reply, target_collection, top_k) ==
    IF reply.kind = "raise" THEN Raises(ConnectionErrorText, <<>>, <<>>)
    ELSE IF ~SearchStatusOk(reply) THEN Returns(<<>>, <<>>)
    ELSE IF ~reply.json THEN Raises(JsonErrorText, <<>>, <<>>)
    ELSE IF SearchIsErrorBody(reply.body) THEN Returns(<<>>, <<>>)
    ELSE IF "data" \notin DOMAIN reply.body THEN Returns(<<>>, <<>>)
    ELSE IF reply.body["data"].type /= "list" THEN Raises(NoLenText, <<>>, <<>>)
    ELSE Returns(ParseHits(reply.body["data"].items, target_collection),
                 HitErrors(reply.body["data"].items))

\* the try block of search_similar_documents from the reply of the search
\* call on: requests.post, response.json() and len(result['data']) may raise
SearchTry(reply, target_collection, top_k) ==
    IF reply.kind = "raise" THEN Raises(ConnectionErrorText, <<>>, <<>>)
    ELSE IF ~SearchStatusOk(reply) THEN Returns(<<>>, <<>>)
    ELSE IF ~reply.json THEN Raises(JsonErrorText, <<>>, <<>>)
    ELSE IF SearchIsErrorBody(reply.body) THEN Returns(<<>>, <<>>)
    ELSE IF "data" \notin DOMAIN reply.body THEN Returns(<<>>, <<>>)
    ELSE IF reply.body["data"].type /= "list" THEN Raises(NoLenText, <<>>, <<>>)
    ELSE Returns(Take(ParseHits(reply.body["data"].items, target_collection), top_k),
                 HitErrors(reply.body["data"].items))

\* search_similar_documents without its except clause
SearchNoExcept(body) == body

\* `except Exception` of search_similar_documents prints and returns []
SearchExcept(body) == Except(body, "Error in search_similar_documents", <<>>)

\* search_similar_documents from the reply of the search call to its return
SearchResult(reply, target_collection, top_k) ==
    SearchExcept(SearchTry(reply, target_collection, top_k))

(***************************************************************************)
(* load_collection_if_needed.                                              *)
(***************************************************************************)
DescribeBodies ==
    {[code |-> 100, message |-> "collection not found"],
     [code |-> 0, data |-> <<>>],
     [code |-> 0, data |-> [load |-> "LoadStateNotLoad"]],
     [code |-> 0, data |-> [load |-> "LoadStateLoaded"]],
     [code |-> 0, data |-> [load |-> "LoadStateLoading"]]}

DescribeReplies ==
    {[kind |-> "raise", status |-> 0, json |-> FALSE, body |-> <<>>]}
    \cup {[kind |-> "http", status |-> s, json |-> TRUE,
           body |-> [code |-> 100, message |-> "collection not found"]] :
             s \in {401, 500}}
    \cup {[kind |-> "http", status |-> 200, json |-> FALSE, body |-> <<>>]}
    \cup {[kind |-> "http", status |-> 200, json |-> TRUE, body |-> b] :
             b \in DescribeBodies}

LoadReplies ==
    {[kind |-> "raise", status |-> 0, json |-> FALSE, body |-> <<>>]}
    \cup {[kind |-> "http", status |-> 500, json |-> TRUE, body |-> <<>>]}
    \cup {[kind |-> "http", status |-> 200, json |-> FALSE, body |-> <<>>]}
    \cup {[kind |-> "http", status |-> 200, json |-> TRUE, body |-> b] :
             b \in {<<>>, [code |-> 0], [code |-> 100]}}

\* collection_info.get('data', {}).get('load', 'Unknown')
LoadState(collection_info) == Get(Get(collection_info, "data", <<>>), "load", "Unknown")

\* the try block of load_collection_if_needed has a load state to look at
DescribeAnswered(reply) == reply.kind = "http" /\ reply.status = 200 /\ reply.json

\* the load call issued for every load state other than loaded
NeedsLoadUnlessLoaded(reply) ==
    DescribeAnswered(reply) /\ LoadState(reply.body) /= "LoadStateLoaded"

\* `if load_state == "LoadStateNotLoad":` the load call is issued
NeedsLoad(reply) ==
    DescribeAnswered(reply) /\ LoadState(reply.body) = "LoadStateNotLoad"

\* the try block of load_collection_if_needed when it issues no load call
DescribeTry(reply) ==
    IF reply.kind = "raise" THEN Raises(ConnectionErrorText, FALSE, <<>>)
    ELSE IF reply.status /= 200 THEN Returns(FALSE, <<>>)
    ELSE IF ~reply.json THEN Raises(JsonErrorText, FALSE, <<>>)
    ELSE Returns(TRUE, <<>>)

\* the try block of load_collection_if_needed after the load call
LoadTry(reply) ==
    IF reply.kind = "raise" THEN Raises(ConnectionErrorText, FALSE, <<>>)
    ELSE IF reply.status /= 200 THEN Returns(FALSE, <<>>)
    ELSE IF ~reply.json THEN Raises(JsonErrorText, FALSE, <<>>)
    ELSE Returns("code" \in DOMAIN reply.body /\ reply.body["code"] = 0, <<>>)

\* `except Exception` of load_collection_if_needed prints and returns False
LoadExcept(body) == Except(body, "Error loading collection", FALSE)

\* load_collection_if_needed, returning without a load call
DescribeResult(reply) == LoadExcept(DescribeTry(reply))

\* load_collection_if_needed, returning after the load call
LoadResult(reply) == LoadExcept(LoadTry(reply))

(***************************************************************************)
(* chat_with_gpt.  A text is a str written as its leading part and the     *)
(* context block appended to it (the empty block for a plain str).         *)
(***************************************************************************)
EmptyContext == [header |-> "", entries |-> <<>>]

Text(s, context) == [text |-> s, context |-> context]

PlainText(s) == Text(s, EmptyContext)

\* the values chat_with_gpt returns
NotAvailableText ==
    [type |-> "str", kind |-> "client_not_available",
     detail |-> "OpenAI client not available. Please check your API key configuration."]
ErrorText(e) == [type |-> "str", kind |-> "error", detail |-> e]
CompletionText(t) == [type |-> "str", kind |-> "completion", detail |-> t]
NoneValue == [type |-> "NoneType", kind |-> "none", detail |-> ""]

\* the entry with the whole content in its content line
ContextEntryWholeContent(i, source, collection_type) ==
    LET metadata == Get(source, "metadata", <<>>)
        content == Get(source, "content", PyStr(<<>>))
    IN  [num |-> i,
         title |-> Get(source, "title", "Unknown Title"),
         label |-> IF collection_type = "fda_warning_letters"
                   THEN "Company" ELSE "Feed",
         who |-> IF collection_type = "fda_warning_letters"
                 THEN Get(metadata, "company_name", "Unknown Company")
                 ELSE Get(metadata, "feed_name", "Unknown Feed"),
         date |-> IF collection_type = "fda_warning_letters"
                  THEN Get(metadata, "letter_date", "Unknown Date")
                  ELSE Get(metadata, "published_date", "Unknown Date"),
         content |-> content.chars,
         ellipsis |-> "..."]

\* one numbered entry of the context block: the header line, and the content
\* line, which ends with "..."
ContextEntry(i, source, collection_type) ==
    LET metadata == Get(source, "metadata", <<>>)
        content == Get(source, "content", PyStr(<<>>))
    IN  IF collection_type = "fda_warning_letters"
        THEN [num |-> i,
              title |-> Get(source, "title", "Unknown Title"),
              label |-> "Company",
              who |-> Get(metadata, "company_name", "Unknown Company"),
              date |-> Get(metadata, "letter_date", "Unknown Date"),
              content |-> Take(content.chars, ContentLimit),
              ellipsis |-> "..."]
        ELSE [num |-> i,
              title |-> Get(source, "title", "Unknown Title"),
              label |-> "Feed",
              who |-> Get(metadata, "feed_name", "Unknown Feed"),
              date |-> Get(metadata, "published_date", "Unknown Date"),
              content |-> Take(content.chars, ContentLimit),
              ellipsis |-> "..."]

\* every source instead of the first three
ContextAllSources(srcs) == srcs

\* `sources[:3]`
ContextSlice(srcs) == Take(srcs, ContextSources)

\* `collection_type = first_source.get('collection', 'general')`
CollectionType(srcs) ==
    IF srcs = <<>> THEN "general" ELSE Get(srcs[1], "collection", "general")

\* source.get('content', '')[:200] raises TypeError on a content that is no str
ContextRaises(srcs) ==
    \E i \in 1..Len(ContextSlice(srcs)) :
        Get(ContextSlice(srcs)[i], "content", PyStr(<<>>)).type /= "str"

\* the context block with each entry in the format of its own collection
BuildContextPerRecord(srcs) ==
    IF srcs = <<>> THEN EmptyContext
    ELSE [header |-> CollectionType(srcs),
          entries |-> [i \in 1..Len(ContextSlice(srcs)) |->
                         ContextEntry(i, ContextSlice(srcs)[i],
                                      Get(ContextSlice(srcs)[i], "collection",
                                          "general"))]]

\* the context block: "" without sources, else the header naming the
\* collection type and one entry per source of sources[:3], numbered from 1
BuildContext(srcs) ==
    IF srcs = <<>> THEN EmptyContext
    ELSE [header |-> CollectionType(srcs),
          entries |-> [i \in 1..Len(ContextSlice(srcs)) |->
                         ContextEntry(i, ContextSlice(srcs)[i], CollectionType(srcs))]]

(***************************************************************************)
(* debug_fda_context (src/test_debug_context.py): the context the script   *)
(* builds by hand from the first source of a search.                       *)
(***************************************************************************)
\* the entry of the first source: the header line takes its title from the
\* metadata, the content line is `first_source.get('content', '')[:1200]`
DebugContextEntry(first_source) ==
    LET metadata == Get(first_source, "metadata", <<>>)
        content == Get(first_source, "content", PyStr(<<>>))
    IN  IF Get(first_source, "collection", "general") = "fda_warning_letters"
        THEN [num |-> 1,
              title |-> Get(metadata, "company_name", "Unknown Company"),
              label |-> "Company",
              who |-> Get(metadata, "company_name", "Unknown Company"),
              date |-> Get(metadata, "letter_date", "Unknown Date"),
              content |-> Take(content.chars, DebugContentLimit),
              ellipsis |-> "..."]
        ELSE [num |-> 1,
              title |-> Get(metadata, "article_title", "Unknown Title"),
              label |-> "Feed",
              who |-> Get(metadata, "feed_name", "Unknown Feed"),
              date |-> Get(metadata, "published_date", "Unknown Date"),
              content |-> Take(content.chars, DebugContentLimit),
              ellipsis |-> "..."]

\* `len(first_source.get('content', ''))` raises TypeError on a content that
\* is None, before any slice of it is taken
DebugContextRaises(srcs) == Get(srcs[1], "content", PyStr(<<>>)).type /= "str"

DebugContextBlock(srcs) ==
    [header |-> Get(srcs[1], "collection", "general"),
     entries |-> <<DebugContextEntry(srcs[1])>>]

\* the first five entries instead of the last five
HistoryFirstN(history) == Take(history, HistoryWindow)

\* `conversation_history[-5:]`
HistorySlice(history) == LastN(history, HistoryWindow)

HistoryMessages(history) ==
    [i \in 1..Len(HistorySlice(history)) |->
        [role |-> HistorySlice(history)[i].role,
         content |-> HistorySlice(history)[i].content]]

\* `current_message = f"{message}\n\n{context}"` when the context is not ""
CurrentMessageNoContext(message, context) == PlainText(message)

CurrentMessage(message, context) ==
    IF context /= EmptyContext THEN Text(message, context) ELSE PlainText(message)

\* a two-way choice: the warning-letter prompt or the news prompt
SystemContentTwoWay(collection_type) ==
    IF collection_type = "fda_warning_letters"
    THEN PlainText("compliance_violation_prompt")
    ELSE PlainText("news_analysis_prompt")

SystemContent(collection_type) ==
    IF collection_type = "rss_feeds" THEN PlainText("news_analysis_prompt")
    ELSE IF collection_type = "fda_warning_letters"
         THEN PlainText("compliance_violation_prompt")
         ELSE PlainText("generic_prompt")

\* the list given to client.chat.completions.create
Messages(message, history, srcs) ==
    <<[role |-> "system", content |-> SystemContent(CollectionType(srcs))]>>
    \o HistoryMessages(history)
    \o <<[role |-> "user", content |-> CurrentMessage(message, BuildContext(srcs))]>>

\* chat_with_gpt without `if not client: return ...`
ChatClientAssumed(cl) == FALSE

\* `if not client: return "OpenAI client not available..."`
ChatClientMissing(cl) == cl = "None"

\* the try block of chat_with_gpt up to the chat-completion call: the messages
ChatPrepareTry(message, history, srcs) ==
    IF ContextRaises(srcs)
    THEN Raises(NotSubscriptableText, <<>>, <<>>)
    ELSE Returns(Messages(message, history, srcs), <<>>)

\* chat_with_gpt without its except clause
ChatNoExcept(body) == body

\* `except Exception` of chat_with_gpt prints and returns the text that
\* embeds str(e)
ChatExcept(body) ==
    IF body.exc
    THEN Returns(ErrorText(body.err),
                 body.log \o <<[line |-> "Error chatting with GPT", err |-> body.err]>>)
    ELSE body

\* chat_with_gpt making no call when it is given no sources
ChatPrepareNeedsSources(cl, message, history, srcs) ==
    IF ChatClientMissing(cl) \/ srcs = <<>>
    THEN [call |-> FALSE, messages |-> <<>>, ret |-> Returns(NotAvailableText, <<>>)]
    ELSE LET body == ChatPrepareTry(message, history, srcs)
         IN  IF body.exc
             THEN [call |-> FALSE, messages |-> <<>>,
                   ret |-> ChatExcept(Raises(body.err, NoneValue, body.log))]
             ELSE [call |-> TRUE, messages |-> body.value,
                   ret |-> Returns(NoneValue, <<>>)]

\* chat_with_gpt up to its await: the call it makes, or what it returns when
\* it makes none
ChatPrepare(cl, message, history, srcs) ==
    IF ChatClientMissing(cl)
    THEN [call |-> FALSE, messages |-> <<>>, ret |-> Returns(NotAvailableText, <<>>)]
    ELSE LET body == ChatPrepareTry(message, history, srcs)
         IN  IF body.exc
             THEN [call |-> FALSE, messages |-> <<>>,
                   ret |-> ChatExcept(Raises(body.err, NoneValue, body.log))]
             ELSE [call |-> TRUE, messages |-> body.value,
                   ret |-> Returns(NoneValue, <<>>)]

(***************************************************************************)
(* Replies of the chat-completion API.                                     *)
(***************************************************************************)
\* The call raises, or answers with a list of choices; the content of a
\* choice's message is a str or None (the API declares it Optional[str]).
ChatReplies ==
    {[kind |-> "raise", err |-> e, choices |-> <<>>] : e \in ApiErrors}
    \cup {[kind |-> "ok", err |-> "", choices |-> <<>>]}
    \cup {[kind |-> "ok", err |-> "", choices |-> <<[content |-> c]>>] :
            c \in {CompletionText("Stryker recalled a device."), NoneValue}}

NoChatReply == [kind |-> "none", err |-> "", choices |-> <<>>]

\* the try block of chat_with_gpt after the await:
\* response.choices[0].message.content
ChatTry(reply) ==
    IF reply.kind = "raise" THEN Raises(reply.err, NoneValue, <<>>)
    ELSE IF Len(reply.choices) = 0 THEN Raises(IndexErrorText, NoneValue, <<>>)
    ELSE Returns(reply.choices[1].content, <<>>)

\* chat_with_gpt after the await
ChatResult(reply) == ChatExcept(ChatTry(reply))

(***************************************************************************)
(* The chat endpoints (chat, chat_with_collection).                        *)
(***************************************************************************)
NoHttp == [status |-> 0, response |-> NoneValue, sources |-> <<>>, detail |-> ""]

ValidationErrorText == "1 validation error for ChatResponse"

\* ChatResponse(response=..., sources=...): `response: str` is validated
ResponseValidates(response) == response.type = "str"

\* the 500 of api/index.py, which puts str(e) in the detail
InternalErrorWithText(e, lines) ==
    [http |-> [status |-> 500, response |-> NoneValue, sources |-> <<>>,
               detail |-> "Internal server error: " \o e],
     log |-> lines \o <<[line |-> "Internal error in chat endpoint", err |-> e]>>]

\* `except Exception` of the handler: HTTPException(500, "Internal server error")
InternalError(e, lines) ==
    [http |-> [status |-> 500, response |-> NoneValue, sources |-> <<>>,
               detail |-> "Internal server error"],
     log |-> lines \o <<[line |-> "Internal error in chat endpoint", err |-> e]>>]

\* the answer carrying only the sources that went into the prompt
RespondWithUsedSources(ret, srcs) ==
    IF ret.exc THEN InternalError(ret.err, ret.log)
    ELSE IF ~ResponseValidates(ret.value)
         THEN InternalError(ValidationErrorText, ret.log)
         ELSE [http |-> [status |-> 200, response |-> ret.value,
                         sources |-> ContextSlice(srcs), detail |-> ""],
               log |-> ret.log]

\* the handler once chat_with_gpt has returned (or raised): its answer and
\* the lines printed
Respond(ret, srcs) ==
    IF ret.exc THEN InternalError(ret.err, ret.log)
    ELSE IF ~ResponseValidates(ret.value)
         THEN InternalError(ValidationErrorText, ret.log)
         ELSE [http |-> [status |-> 200, response |-> ret.value, sources |-> srcs,
                         detail |-> ""],
               log |-> ret.log]

\* a collection that is not one of the two known replaced by the default
EndpointCollectionValidated(endpoint, collection) ==
    IF endpoint = "chat" \/ collection \notin {"rss_feeds", "fda_warning_letters"}
    THEN DEFAULT_COLLECTION ELSE collection

\* the collection the endpoint searches
EndpointCollection(endpoint, collection) ==
    IF endpoint = "chat" THEN DEFAULT_COLLECTION ELSE collection


(***************************************************************************)
(* Requests.                                                               *)
(***************************************************************************)
Collections == {"rss_feeds", "fda_warning_letters", "unknown_collection"}

UserMessages == {"What news about Stryker?"}

\* `role: str`: any role a history entry can carry
Roles == <<"user", "assistant", "system">>

\* a conversation history of n entries, entry i naming i, the roles taken in
\* turn: every third entry has the role `system`
History(n) ==
    [i \in 1..n |->
        [role |-> Roles[((i - 1) % Len(Roles)) + 1],
         content |-> PlainText("turn " \o ToString(i))]]

ChatRequests ==
    {[endpoint |-> "chat", collection |-> "", message |-> m,
      conversation_history |-> History(n)] :
        m \in UserMessages, n \in 0..MaxHistory}
    \cup {[endpoint |-> "chat_with_collection", collection |-> c, message |-> m,
           conversation_history |-> History(n)] :
        c \in Collections, m \in UserMessages, n \in 0..MaxHistory}

\* the calls the scripts make: search_similar_documents(query, collection_name,
\* top_k), with any collection name, the empty one too
SearchCalls ==
    {[endpoint |-> "search_similar_documents", collection |-> c, message |-> m,
      conversation_history |-> <<>>] :
        c \in Collections \cup {""}, m \in UserMessages}

\* the sources a script gives chat_with_gpt: None (the default), lists of
\* records of one collection, lists that mix two, and a record with a title
\* and no other key
SourceArgs ==
    {PyNull, PyList(<<>>)}
    \cup {PyList(<<SourceItem(RssHit(1), c)>>) : c \in Collections}
    \cup {PyList(<<SourceItem(FdaHit(1), c), SourceItem(RssHit(2), d)>>) :
            c \in Collections, d \in Collections}
    \cup {PyList(<<[title |-> "Article 1"]>>)}

\* the calls the scripts make: chat_with_gpt(message, conversation_history,
\* sources)
ChatCalls ==
    {[endpoint |-> "chat_with_gpt", collection |-> "", message |-> m,
      conversation_history |-> History(n), sources |-> a] :
        m \in UserMessages, n \in 0..MaxHistory, a \in SourceArgs}

\* `if sources:` is passed by a list that is not empty; None and [] leave
\* the context "" and the collection type "general"
ChatSources(arg) == IF arg.type = "list" THEN arg.items ELSE <<>>

NoRequest == [endpoint |-> "", collection |-> "", message |-> "",
              conversation_history |-> <<>>]

(***************************************************************************)
(* The GET endpoints: health_check, get_latest_rss_feeds,                  *)
(* get_latest_warning_letters.                                             *)
(***************************************************************************)
\* range(a, b)
PyRange(a, b) == [i \in 1..Max(0, b - a) |-> a + i - 1]

\* the query strings: no limit, or an integer limit
Queries ==
    {<<>>} \cup {[limit |-> n] : n \in (-MaxLimit..MaxLimit) \cup {100}}

\* `limit: int = 10`
LimitParam(query) == Get(query, "limit", DefaultLimit)

\* range(1, limit + 1): the count of the list not held to five
LatestRangeUncapped(limit) == PyRange(1, limit + 1)

\* `range(1, min(limit + 1, 6))`
LatestRange(limit) == PyRange(1, Min(limit + 1, LatestCap))

\* the items of the two lists, their fields in the order the model checker
\* keeps the fields of a record in
RssFeedItem(i) ==
    [title |-> "Regulatory Update " \o ToString(i),
     content |-> "Latest regulatory news and updates from various sources",
     source |-> "Regulatory News Feed",
     id |-> "feed_" \o ToString(i),
     published_at |-> "2025-08-18T20:00:00Z"]

WarningLetterItem(i) ==
    [violations |-> <<"Quality System", "Documentation">>,
     title |-> "FDA Warning Letter " \o ToString(i),
     content |-> "FDA warning letter regarding compliance issues",
     id |-> "wl_" \o ToString(i),
     issued_date |-> "2025-08-18",
     company |-> "Company " \o ToString(i)]

\* `[{...} for i in range(...)]` of get_latest_rss_feeds
RECURSIVE RssFeedItems(_)
RssFeedItems(range) ==
    IF range = <<>> THEN <<>>
    ELSE <<RssFeedItem(Head(range))>> \o RssFeedItems(Tail(range))

\* `[{...} for i in range(...)]` of get_latest_warning_letters
RECURSIVE WarningLetterItems(_)
WarningLetterItems(range) ==
    IF range = <<>> THEN <<>>
    ELSE <<WarningLetterItem(Head(range))>> \o WarningLetterItems(Tail(range))

LatestRssFeeds(limit) == [feeds |-> RssFeedItems(LatestRange(limit))]

LatestWarningLetters(limit) ==
    [warning_letters |-> WarningLetterItems(LatestRange(limit))]

\* the health body depending on the client being there
HealthByClient(cl) ==
    [status |-> IF cl = "None" THEN "degraded" ELSE "healthy",
     message |-> "RegIntel API is running"]

\* the body of health_check
Health(cl) == [status |-> "healthy", message |-> "RegIntel API is running"]

NoBody == [status |-> 0, json |-> <<>>]

GetRequest(endpoint, query) ==
    [endpoint |-> endpoint, collection |-> "", message |-> "",
     conversation_history |-> <<>>, query |-> query]

VARIABLES
    client,           \* the module-level OpenAI client: "AsyncOpenAI" or "None"
    pc,               \* where each request is
    request,          \* the request each handler was given
    top_k,            \* the top_k search_similar_documents was called with
    calls,            \* the external calls each request has issued, in order
    log,              \* the error lines each request has printed, in order
    emb_reply,        \* the reply to the embedding call
    query_embedding,  \* what get_embedding returned
    describe_reply,   \* the reply to the describe call
    load_reply,       \* the reply to the load call
    load_success,     \* what load_collection_if_needed returned
    search_data,      \* the body of the search call
    search_reply,     \* the reply to the search call
    sources,          \* what search_similar_documents returned
    messages,         \* the messages given to the chat-completion call
    chat_reply,       \* the reply to the chat-completion call
    http,             \* the HTTP response of the request
    response,         \* what chat_with_gpt returned to a script
    context,          \* the context the debug script has built
    body              \* the JSON body a GET endpoint answered with

vars == <<env, client, pc, request, top_k, calls, log, emb_reply, query_embedding,
          describe_reply, load_reply, load_success, search_data, search_reply,
          sources, messages, chat_reply, http, response, context, body>>

\* requests.post holds the event loop: no other coroutine runs meanwhile
Blocking == {"in_describe", "in_load", "in_search"}

Runnable(r) == \A q \in Reqs \ {r} : pc[q] \notin Blocking

Call(op, collection) == [op |-> op, collectionName |-> collection]

Target(req) == TargetCollection(EndpointCollection(req.endpoint, req.collection))

Init ==
    /\ env \in Environments
    /\ client \in {"AsyncOpenAI", "None"}
    /\ pc = [r \in Reqs |-> "idle"]
    /\ request = [r \in Reqs |-> NoRequest]
    /\ top_k = [r \in Reqs |-> TopK]
    /\ calls = [r \in Reqs |-> <<>>]
    /\ log = [r \in Reqs |-> <<>>]
    /\ emb_reply = [r \in Reqs |-> NoEmbeddingReply]
    /\ query_embedding = [r \in Reqs |-> <<>>]
    /\ describe_reply = [r \in Reqs |-> NoReply]
    /\ load_reply = [r \in Reqs |-> NoReply]
    /\ load_success = [r \in Reqs |-> FALSE]
    /\ search_data = [r \in Reqs |-> NoSearchData]
    /\ search_reply = [r \in Reqs |-> NoReply]
    /\ sources = [r \in Reqs |-> <<>>]
    /\ messages = [r \in Reqs |-> <<>>]
    /\ chat_reply = [r \in Reqs |-> NoChatReply]
    /\ http = [r \in Reqs |-> NoHttp]
    /\ response = [r \in Reqs |-> NoneValue]
    /\ context = [r \in Reqs |-> EmptyContext]
    /\ body = [r \in Reqs |-> NoBody]

\* the handler answers: the request is over
Answer(r, answer, lines) ==
    /\ pc' = [pc EXCEPT ![r] = "responded"]
    /\ http' = [http EXCEPT ![r] = answer.http]
    /\ log' = [log EXCEPT ![r] = @ \o lines \o answer.log]

\* `[ChatMessage(role=msg.role, content=msg.content) for msg in
\* request.conversation_history]`
CopyHistory(conversation_history) ==
    [i \in 1..Len(conversation_history) |->
        [role |-> conversation_history[i].role,
         content |-> conversation_history[i].content]]

\* the handler from the return of search_similar_documents on: found holds
\* what the function returned (or raised) and printed.  The history is copied,
\* chat_with_gpt runs to its await or to its return, and in the latter case
\* the handler answers
ChatStage(r, req, found) ==
    IF found.exc
    THEN /\ Answer(r, InternalError(found.err, <<>>), found.log)
         /\ UNCHANGED <<calls, sources, messages>>
    ELSE LET prep == ChatPrepare(client, req.message,
                                 CopyHistory(req.conversation_history), found.value)
         IN  /\ sources' = [sources EXCEPT ![r] = found.value]
             /\ IF prep.call
                THEN /\ pc' = [pc EXCEPT ![r] = "await_chat"]
                     /\ calls' = [calls EXCEPT ![r] = Append(@, Call("chat", ""))]
                     /\ messages' = [messages EXCEPT ![r] = prep.messages]
                     /\ log' = [log EXCEPT ![r] = @ \o found.log]
                     /\ http' = http
                ELSE /\ Answer(r, Respond(prep.ret, found.value), found.log)
                     /\ UNCHANGED <<calls, messages>>

\* search_similar_documents is over: found holds what it returned (or raised)
\* and printed.  A script that called it has its sources; a handler goes on
SearchReturned(r, req, found) ==
    IF req.endpoint = "search_similar_documents"
    THEN /\ pc' = [pc EXCEPT ![r] = "returned"]
         /\ sources' = [sources EXCEPT ![r] = found.value]
         /\ log' = [log EXCEPT ![r] = @ \o found.log]
         /\ UNCHANGED <<calls, messages, http>>
    ELSE ChatStage(r, req, found)

\* the search made to depend on the collection having loaded
IssueSearchIfLoaded(r, loaded) ==
    /\ load_success' = [load_success EXCEPT ![r] = loaded.value]
    /\ IF loaded.value
       THEN /\ pc' = [pc EXCEPT ![r] = "in_search"]
            /\ calls' = [calls EXCEPT ![r] =
                           Append(@, Call("search", Target(request[r])))]
            /\ search_data' = [search_data EXCEPT ![r] =
                                 SearchData(Target(request[r]), query_embedding[r], top_k[r])]
            /\ log' = [log EXCEPT ![r] = @ \o loaded.log]
            /\ UNCHANGED <<sources, messages, http>>
       ELSE /\ search_data' = search_data
            /\ SearchReturned(r, request[r], Returns(<<>>, loaded.log))

\* load_collection_if_needed has returned: search_similar_documents issues
\* the search call, whatever the value returned
IssueSearch(r, loaded) ==
    /\ load_success' = [load_success EXCEPT ![r] = loaded.value]
    /\ pc' = [pc EXCEPT ![r] = "in_search"]
    /\ calls' = [calls EXCEPT ![r] = Append(@, Call("search", Target(request[r])))]
    /\ search_data' = [search_data EXCEPT ![r] =
                         SearchData(Target(request[r]), query_embedding[r], top_k[r])]
    /\ log' = [log EXCEPT ![r] = @ \o loaded.log]
    /\ UNCHANGED <<sources, messages, http>>

\* search_similar_documents once get_embedding is over: got holds what it
\* returned (or raised) and printed.  An exception goes to the except clause
\* of search_similar_documents, an empty embedding makes it return [], and
\* otherwise load_collection_if_needed issues the describe call
AfterEmbedding(r, req, got) ==
    IF got.exc
    THEN /\ query_embedding' = query_embedding
         /\ SearchReturned(r, req, SearchExcept(Raises(got.err, <<>>, got.log)))
    ELSE /\ query_embedding' = [query_embedding EXCEPT ![r] = got.value]
         /\ IF EmbeddingUsable(got.value)
            THEN /\ pc' = [pc EXCEPT ![r] = "in_describe"]
                 /\ calls' = [calls EXCEPT ![r] =
                                Append(@, Call("describe", Target(req)))]
                 /\ log' = [log EXCEPT ![r] = @ \o got.log]
                 /\ UNCHANGED <<sources, messages, http>>
            ELSE SearchReturned(r, req, Returns(<<>>, got.log))

\* POST /api/chat and POST /api/chat/{collection}: the handler starts and runs
\* to the embedding call, or, without a client, on from get_embedding's []
Receive(r) ==
    /\ pc[r] = "idle"
    /\ Runnable(r)
    /\ \E req \in ChatRequests :
        /\ request' = [request EXCEPT ![r] = req]
        /\ top_k' = [top_k EXCEPT ![r] = TopK]
        /\ IF EmbeddingClientMissing(client)
           THEN AfterEmbedding(r, req, Returns(<<>>, <<>>))
           ELSE /\ pc' = [pc EXCEPT ![r] = "await_embedding"]
                /\ calls' = [calls EXCEPT ![r] = Append(@, Call("embedding", ""))]
                /\ UNCHANGED <<log, query_embedding, sources, messages, http>>
    /\ UNCHANGED <<env, client, emb_reply, describe_reply, load_reply, load_success,
                   search_data, search_reply, chat_reply, response,
                   context, body>>

\* a script calls search_similar_documents(query, collection_name, top_k): it
\* runs to the embedding call, or, without a client, on from get_embedding's []
CallSearch(r) ==
    /\ pc[r] = "idle"
    /\ \E req \in SearchCalls, k \in 0..MaxTopK :
        /\ request' = [request EXCEPT ![r] = req]
        /\ top_k' = [top_k EXCEPT ![r] = k]
        /\ IF EmbeddingClientMissing(client)
           THEN AfterEmbedding(r, req, Returns(<<>>, <<>>))
           ELSE /\ pc' = [pc EXCEPT ![r] = "await_embedding"]
                /\ calls' = [calls EXCEPT ![r] = Append(@, Call("embedding", ""))]
                /\ UNCHANGED <<log, query_embedding, sources, messages, http>>
    /\ UNCHANGED <<env, client, emb_reply, describe_reply, load_reply, load_success,
                   search_data, search_reply, chat_reply, response,
                   context, body>>

\* debug_fda_context once its search has returned: with sources it builds the
\* context from the first one; its `except Exception` prints the error
DebugContext(r) ==
    /\ pc[r] = "returned"
    /\ pc' = [pc EXCEPT ![r] = "done"]
    /\ IF sources[r] = <<>>
       THEN UNCHANGED <<context, log>>
       ELSE IF DebugContextRaises(sources[r])
            THEN /\ log' = [log EXCEPT ![r] =
                              Append(@, [line |-> "Error",
                                         err |-> NoLenText])]
                 /\ context' = context
            ELSE /\ context' = [context EXCEPT ![r] = DebugContextBlock(sources[r])]
                 /\ log' = log
    /\ UNCHANGED <<env, client, request, top_k, calls, emb_reply, query_embedding,
                   describe_reply, load_reply, load_success, search_data,
                   search_reply, sources, messages, chat_reply, http, response,
                   body>>

\* the client dropped for the whole process when the embedding call raises
EmbeddingReturnDroppingClient(r) ==
    /\ pc[r] = "await_embedding"
    /\ Runnable(r)
    /\ \E reply \in EmbeddingReplies :
        /\ emb_reply' = [emb_reply EXCEPT ![r] = reply]
        /\ client' = IF reply.kind = "raise" THEN "None" ELSE client
        /\ AfterEmbedding(r, request[r], GetEmbedding(reply))
    /\ UNCHANGED <<env, request, top_k, describe_reply, load_reply,
                   load_success, search_data, search_reply, chat_reply, response,
                   context, body>>

\* the embedding call resolves: get_embedding returns, and
\* search_similar_documents returns [] or issues the describe call
EmbeddingReturn(r) ==
    /\ pc[r] = "await_embedding"
    /\ Runnable(r)
    /\ \E reply \in EmbeddingReplies :
        /\ emb_reply' = [emb_reply EXCEPT ![r] = reply]
        /\ AfterEmbedding(r, request[r], GetEmbedding(reply))
    /\ UNCHANGED <<env, client, request, top_k, describe_reply, load_reply,
                   load_success, search_data, search_reply, chat_reply, response,
                   context, body>>

\* the describe call issued a second time when the first one raises
DescribeReturnRetrying(r) ==
    /\ pc[r] = "in_describe"
    /\ \E reply \in DescribeReplies :
        /\ describe_reply' = [describe_reply EXCEPT ![r] = reply]
        /\ IF reply.kind = "raise" /\ describe_reply[r] = NoReply
           THEN /\ calls' = [calls EXCEPT ![r] =
                               Append(@, Call("describe", Target(request[r])))]
                /\ UNCHANGED <<pc, log, load_success, search_data, sources,
                               messages, http>>
           ELSE IF NeedsLoad(reply)
           THEN /\ pc' = [pc EXCEPT ![r] = "in_load"]
                /\ calls' = [calls EXCEPT ![r] =
                               Append(@, Call("load", Target(request[r])))]
                /\ UNCHANGED <<log, load_success, search_data, sources, messages,
                               http>>
           ELSE IssueSearch(r, DescribeResult(reply))
    /\ UNCHANGED <<env, client, request, top_k, emb_reply, query_embedding,
                   load_reply, search_reply, chat_reply, response,
                   context, body>>

\* the describe call answers: the load call is issued, or
\* load_collection_if_needed returns and the search call is issued
DescribeReturn(r) ==
    /\ pc[r] = "in_describe"
    /\ \E reply \in DescribeReplies :
        /\ describe_reply' = [describe_reply EXCEPT ![r] = reply]
        /\ IF NeedsLoad(reply)
           THEN /\ pc' = [pc EXCEPT ![r] = "in_load"]
                /\ calls' = [calls EXCEPT ![r] =
                               Append(@, Call("load", Target(request[r])))]
                /\ UNCHANGED <<log, load_success, search_data, sources, messages,
                               http>>
           ELSE IssueSearch(r, DescribeResult(reply))
    /\ UNCHANGED <<env, client, request, top_k, emb_reply, query_embedding,
                   load_reply, search_reply, chat_reply, response,
                   context, body>>

\* the load call answers: load_collection_if_needed returns and the search
\* call is issued
LoadReturn(r) ==
    /\ pc[r] = "in_load"
    /\ \E reply \in LoadReplies :
        /\ load_reply' = [load_reply EXCEPT ![r] = reply]
        /\ IssueSearch(r, LoadResult(reply))
    /\ UNCHANGED <<env, client, request, top_k, emb_reply, query_embedding,
                   describe_reply, search_reply, chat_reply, response,
                   context, body>>

\* the search call answers: search_similar_documents returns its sources and
\* the handler goes on to chat_with_gpt
SearchReturn(r) ==
    /\ pc[r] = "in_search"
    /\ \E reply \in SearchReplies :
        /\ search_reply' = [search_reply EXCEPT ![r] = reply]
        /\ SearchReturned(r, request[r],
                          SearchResult(reply, Target(request[r]), top_k[r]))
    /\ UNCHANGED <<env, client, request, top_k, emb_reply, query_embedding,
                   describe_reply, load_reply, load_success, search_data,
                   chat_reply, response,
                   context, body>>

\* a handler that makes the chat-completion call again when it has failed
ChatReturnedRetrying(r, req, ret) ==
    IF req.endpoint = "chat_with_gpt"
    THEN /\ pc' = [pc EXCEPT ![r] = "done"]
         /\ response' = [response EXCEPT ![r] = ret.value]
         /\ log' = [log EXCEPT ![r] = @ \o ret.log]
         /\ http' = http
    ELSE IF ret.value.kind = "error"
    THEN UNCHANGED <<pc, http, log, response>>
    ELSE /\ Answer(r, Respond(ret, sources[r]), <<>>)
         /\ response' = response

\* chat_with_gpt is over: ret holds what it returned (or raised) and printed.
\* A script that called it has the value; a handler answers
ChatReturned(r, req, ret) ==
    IF req.endpoint = "chat_with_gpt"
    THEN /\ pc' = [pc EXCEPT ![r] = "done"]
         /\ response' = [response EXCEPT ![r] = ret.value]
         /\ log' = [log EXCEPT ![r] = @ \o ret.log]
         /\ http' = http
    ELSE /\ Answer(r, Respond(ret, sources[r]), <<>>)
         /\ response' = response

\* a script calls chat_with_gpt(message, conversation_history, sources): it
\* runs to the chat-completion call, or to its return when it makes none
CallChat(r) ==
    /\ pc[r] = "idle"
    /\ \E req \in ChatCalls :
        LET prep == ChatPrepare(client, req.message, req.conversation_history,
                                ChatSources(req.sources))
        IN  /\ request' = [request EXCEPT ![r] = req]
            /\ sources' = [sources EXCEPT ![r] = ChatSources(req.sources)]
            /\ IF prep.call
               THEN /\ pc' = [pc EXCEPT ![r] = "await_chat"]
                    /\ calls' = [calls EXCEPT ![r] = Append(@, Call("chat", ""))]
                    /\ messages' = [messages EXCEPT ![r] = prep.messages]
                    /\ UNCHANGED <<log, http, response>>
               ELSE /\ pc' = [pc EXCEPT ![r] = "done"]
                    /\ response' = [response EXCEPT ![r] = prep.ret.value]
                    /\ log' = [log EXCEPT ![r] = @ \o prep.ret.log]
                    /\ UNCHANGED <<calls, messages, http>>
    /\ UNCHANGED <<env, client, top_k, emb_reply, query_embedding, describe_reply,
                   load_reply, load_success, search_data, search_reply,
                   chat_reply, context, body>>

\* the chat-completion call resolves: chat_with_gpt returns and the handler
\* answers
ChatReturn(r) ==
    /\ pc[r] = "await_chat"
    /\ Runnable(r)
    /\ \E reply \in ChatReplies :
        /\ chat_reply' = [chat_reply EXCEPT ![r] = reply]
        /\ ChatReturned(r, request[r], ChatResult(reply))
    /\ UNCHANGED <<env, client, request, top_k, calls, emb_reply, query_embedding,
                   describe_reply, load_reply, load_success, search_data,
                   search_reply, sources, messages, context, body>>

\* a GET handler has no await: it runs from its start to its answer
AnswerGet(r, endpoint, query, json) ==
    /\ pc[r] = "idle"
    /\ Runnable(r)
    /\ pc' = [pc EXCEPT ![r] = "responded"]
    /\ request' = [request EXCEPT ![r] = GetRequest(endpoint, query)]
    /\ body' = [body EXCEPT ![r] = [status |-> 200, json |-> json]]
    /\ UNCHANGED <<env, client, top_k, calls, log, emb_reply, query_embedding,
                   describe_reply, load_reply, load_success, search_data,
                   search_reply, sources, messages, chat_reply, http, response,
                   context>>

\* GET /api/health
HealthCheck(r) == AnswerGet(r, "health_check", <<>>, Health(client))

\* GET /api/rss-feeds/latest
GetLatestRssFeeds(r) ==
    \E query \in Queries :
        AnswerGet(r, "get_latest_rss_feeds", query,
                  LatestRssFeeds(LimitParam(query)))

\* GET /api/warning-letters/latest
GetLatestWarningLetters(r) ==
    \E query \in Queries :
        AnswerGet(r, "get_latest_warning_letters", query,
                  LatestWarningLetters(LimitParam(query)))

\* one request from its arrival to its answer
Next ==
    \/ Receive(1)
    \/ EmbeddingReturn(1)
    \/ DescribeReturn(1)
    \/ LoadReturn(1)
    \/ SearchReturn(1)
    \/ ChatReturn(1)

Spec == Init /\ [][Next]_vars

\* the chat endpoints and the scripts, which call search_similar_documents
\* and chat_with_gpt themselves; the requests to the endpoints come without
\* history here (the scripts' calls of chat_with_gpt carry the histories)
ScriptNext ==
    \/ Receive(1) /\ request'[1].conversation_history = <<>>
    \/ CallSearch(1)
    \/ CallChat(1)
    \/ EmbeddingReturn(1)
    \/ DescribeReturn(1)
    \/ LoadReturn(1)
    \/ SearchReturn(1)
    \/ ChatReturn(1)
    \/ DebugContext(1)

ScriptSpec == Init /\ [][ScriptNext]_vars

\* two requests to the two endpoints that list the latest items
LatestNext ==
    \/ GetLatestRssFeeds(1)
    \/ GetLatestWarningLetters(1)
    \/ GetLatestRssFeeds(2)
    \/ GetLatestWarningLetters(2)

LatestSpec == Init /\ [][LatestNext]_vars

\* a chat request and, at any time the event loop is free, a health request
HealthNext ==
    \/ Receive(1)
    \/ EmbeddingReturn(1)
    \/ DescribeReturn(1)
    \/ LoadReturn(1)
    \/ SearchReturn(1)
    \/ ChatReturn(1)
    \/ HealthCheck(2)

HealthSpec == Init /\ [][HealthNext]_vars

\* the requests and the replies of the runs with two chat requests: POST
\* /api/chat without history, and a few replies of each kind, a failure and
\* a success among them
FewInputs ==
    \A r \in Reqs :
        /\ request[r] \in
              {NoRequest} \cup
              {req \in ChatRequests :
                  /\ req.conversation_history = <<>>
                  /\ req.endpoint = "chat"}
        /\ emb_reply[r] \in
              {NoEmbeddingReply,
               [kind |-> "raise", err |-> "Request timed out.", data |-> <<>>],
               [kind |-> "ok", err |-> "", data |-> <<[embedding |-> <<1, 16777217>>]>>]}
        /\ describe_reply[r] \in
              {NoReply,
               [kind |-> "raise", status |-> 0, json |-> FALSE, body |-> <<>>]}
              \cup {[kind |-> "http", status |-> 200, json |-> TRUE,
                     body |-> [code |-> 0, data |-> [load |-> l]]] :
                       l \in {"LoadStateNotLoad", "LoadStateLoaded"}}
        /\ load_reply[r] \in
              {NoReply,
               [kind |-> "raise", status |-> 0, json |-> FALSE, body |-> <<>>],
               [kind |-> "http", status |-> 200, json |-> TRUE, body |-> [code |-> 0]]}
        /\ search_reply[r] \in
              {NoReply,
               [kind |-> "raise", status |-> 0, json |-> FALSE, body |-> <<>>],
               [kind |-> "http", status |-> 200, json |-> TRUE,
                body |-> [code |-> 0,
                          data |-> PyList(<<Hit(1, "rss"), Hit(2, "long_content")>>)]]}
        /\ chat_reply[r] \in
              {NoChatReply}
              \cup {[kind |-> "raise", err |-> e, choices |-> <<>>] : e \in ApiErrors}
              \cup {[kind |-> "ok", err |-> "", choices |-> <<[content |-> c]>>] :
                      c \in {CompletionText("Stryker recalled a device."), NoneValue}}

\* two chat requests on the one event loop, in every order the loop allows
ConcurrentNext ==
    \/ \E r \in Reqs : Receive(r) /\ FewInputs'
    \/ \E r \in Reqs : EmbeddingReturn(r) /\ FewInputs'
    \/ \E r \in Reqs : DescribeReturn(r) /\ FewInputs'
    \/ \E r \in Reqs : LoadReturn(r) /\ FewInputs'
    \/ \E r \in Reqs : SearchReturn(r) /\ FewInputs'
    \/ \E r \in Reqs : ChatReturn(r) /\ FewInputs'

\* the server started with the default collection left as it is or set to
\* the warning letters
ConcurrentInit ==
    /\ Init
    /\ env \in {<<>>, [DEFAULT_COLLECTION |-> "fda_warning_letters"]}

ConcurrentSpec == ConcurrentInit /\ [][ConcurrentNext]_vars

\* the same, every external call in flight returning or failing in the end:
\* each await resumes, each requests.post returns or raises
LiveSpec ==
    /\ ConcurrentInit
    /\ [][ConcurrentNext]_vars
    /\ \A r \in Reqs :
          /\ WF_vars(EmbeddingReturn(r))
          /\ WF_vars(DescribeReturn(r))
          /\ WF_vars(LoadReturn(r))
          /\ WF_vars(SearchReturn(r))
          /\ WF_vars(ChatReturn(r))


(***************************************************************************)
(* Properties.                                                             *)
(***************************************************************************)
Ops(r) == [i \in 1..Len(calls[r]) |-> calls[r][i].op]

IsVdbOp(op) == op \in {"describe", "load", "search"}

VdbOps(r) == SelectSeq(Ops(r), IsVdbOp)

Issued(r, op) == \E i \in 1..Len(calls[r]) : calls[r][i].op = op

Lines(r) == {log[r][i].line : i \in 1..Len(log[r])}

\* the embedding stage of r is over
PastEmbedding(r) == pc[r] \notin {"idle", "await_embedding"}

\* C1: whenever the embedding stage gave an empty vector (no client, the
\* embedding API failing, or an empty vector), search_similar_documents
\* returns the empty sequence and has issued no describe, load or search call.
C1_EmptyEmbeddingSkipsVdb ==
    \A r \in Reqs :
        (PastEmbedding(r) /\ query_embedding[r] = <<>>) =>
            /\ sources[r] = <<>>
            /\ VdbOps(r) = <<>>
            /\ search_reply[r] = NoReply

C1_Witness ==
    \E r \in Reqs :
        /\ pc[r] = "responded"
        /\ emb_reply[r].kind = "raise"
        /\ query_embedding[r] = <<>>
        /\ http[r].status = 200
        /\ http[r].sources = <<>>

\* C2: with a non-empty embedding, the describe call comes first and the
\* search call is issued as soon as load_collection_if_needed is over,
\* whatever the describe call and the load call answered or raised.
C2_SearchAlwaysFollowsDescribe ==
    \A r \in Reqs :
        query_embedding[r] /= <<>> =>
            /\ pc[r] = "in_describe" => VdbOps(r) = <<"describe">>
            /\ pc[r] = "in_load" => VdbOps(r) = <<"describe", "load">>
            /\ pc[r] \in {"in_search", "await_chat", "responded"} =>
                  VdbOps(r) \in {<<"describe", "search">>,
                                 <<"describe", "load", "search">>}

C2_Witness ==
    \E r \in Reqs :
        /\ describe_reply[r].kind = "http"
        /\ load_reply[r].kind = "raise"
        /\ load_success[r] = FALSE
        /\ VdbOps(r) = <<"describe", "load", "search">>
        /\ Len(sources[r]) > 0

\* the search call answered with a failure: an exception, a status other than
\* 200, a body that is no JSON, a non-zero code, or a data that is no list
SearchFailed(reply) ==
    \/ reply.kind = "raise"
    \/ /\ reply.kind = "http"
       /\ \/ reply.status /= 200
          \/ ~reply.json
          \/ "code" \in DOMAIN reply.body /\ reply.body["code"] /= 0
          \/ "data" \in DOMAIN reply.body /\ reply.body["data"].type /= "list"

\* C3: search_similar_documents returns the empty sequence when the search
\* call answers with a status other than 200 or with a non-zero code, and when
\* a step of it raises (the embedding call, requests.post, response.json(),
\* reading the data); no exception reaches the handler: the request goes on
\* to the chat stage.
C3_SearchFailureGivesEmpty ==
    \A r \in Reqs :
        /\ (search_reply[r] /= NoReply /\ SearchFailed(search_reply[r])) =>
              sources[r] = <<>>
        /\ emb_reply[r].kind = "raise" => sources[r] = <<>>
        /\ (search_reply[r] /= NoReply \/ emb_reply[r].kind = "raise") =>
              \/ pc[r] = "await_chat"
              \/ pc[r] = "responded" /\ (http[r].status = 200 \/ Issued(r, "chat"))

C3_Witness ==
    \E r \in Reqs :
        /\ pc[r] = "responded"
        /\ search_reply[r].kind = "http"
        /\ search_reply[r].status = 200
        /\ search_reply[r].json
        /\ "code" \in DOMAIN search_reply[r].body
        /\ search_reply[r].body["code"] /= 0
        /\ "data" \in DOMAIN search_reply[r].body
        /\ http[r].status = 200
        /\ http[r].sources = <<>>

\* one of the sources used for the context has a content that is no str
ContextFails(r) ==
    \E i \in 1..Len(sources[r]) : i <= 3 /\ sources[r][i].content.type /= "str"

\* C4: chat_with_gpt never lets an exception out: when the chat-completion
\* call raises, when its reply has no choice, or when building the context
\* raises, it returns the text that embeds the error string, and the request
\* is answered 200 with that text.
C4_ChatFailureIsText ==
    \A r \in Reqs :
        pc[r] = "responded" =>
            /\ chat_reply[r].kind = "raise" =>
                  /\ http[r].status = 200
                  /\ http[r].response = ErrorText(chat_reply[r].err)
            /\ (chat_reply[r].kind = "ok" /\ chat_reply[r].choices = <<>>) =>
                  /\ http[r].status = 200
                  /\ http[r].response = ErrorText(IndexErrorText)
            /\ (client /= "None" /\ ContextFails(r)) =>
                  /\ http[r].status = 200
                  /\ http[r].response = ErrorText(NotSubscriptableText)
                  /\ ~Issued(r, "chat")

C4_Witness ==
    \E r \in Reqs :
        /\ pc[r] = "responded"
        /\ chat_reply[r].kind = "raise"
        /\ Len(sources[r]) > 0
        /\ http[r].response.kind = "error"

\* the request went to POST /api/chat/{collection} with a collection the
\* vector database does not know
ToUnknownCollection(r) ==
    /\ request[r].endpoint = "chat_with_collection"
    /\ request[r].collection = "unknown_collection"

\* C5: POST /api/chat/{collection} with an unknown collection is answered
\* with HTTP 200 and never with HTTP 500.
C5_UnknownCollectionNever500 ==
    \A r \in Reqs :
        (ToUnknownCollection(r) /\ pc[r] = "responded") => http[r].status = 200

\* C6: every answer of the two chat endpoints is a 200 carrying a
\* ChatResponse or a 500 whose detail is the fixed text "Internal server
\* error"; when the chat-completion call raises, the answer is the 200 with
\* the exception text in `response`.
C6_AnswerIs200Or500 ==
    \A r \in Reqs :
        pc[r] = "responded" =>
            /\ \/ /\ http[r].status = 200
                  /\ http[r].response.type = "str"
                  /\ http[r].detail = ""
               \/ /\ http[r].status = 500
                  /\ http[r].detail = "Internal server error"
                  /\ http[r].response = NoneValue
                  /\ http[r].sources = <<>>
            /\ chat_reply[r].kind = "raise" =>
                  /\ http[r].status = 200
                  /\ http[r].response.kind = "error"
                  /\ http[r].response.detail = chat_reply[r].err

C6_Witness ==
    \E r \in Reqs :
        /\ pc[r] = "responded"
        /\ http[r].status = 500
        /\ http[r].detail = "Internal server error"
        /\ chat_reply[r].kind = "ok"

\* C7: without a client (no API key), a chat request issues no external call
\* and is answered 200 with the fixed "OpenAI client not available" text and
\* no sources.
C7_NoClientNoCall ==
    client = "None" =>
        \A r \in Reqs :
            /\ calls[r] = <<>>
            /\ pc[r] \in {"idle", "responded"}
            /\ pc[r] = "responded" =>
                  /\ http[r].status = 200
                  /\ http[r].response = NotAvailableText
                  /\ http[r].sources = <<>>
                  /\ log[r] = <<>>

C7_Witness ==
    \E r \in Reqs :
        /\ client = "None"
        /\ pc[r] = "responded"
        /\ http[r].response.kind = "client_not_available"

\* the embedding API answered with a vector
EmbeddingAnswered(reply) == reply.kind = "ok" /\ Len(reply.data) > 0

\* C8: get_embedding never raises: whatever the embedding call does, it
\* returns the vector of the reply or, on a failure, the empty sequence
\* (printing its own error line, so that nothing reaches the except clause of
\* its caller); without a client it returns the empty sequence and makes no
\* call.
C8_GetEmbeddingNeverRaises ==
    \A r \in Reqs :
        /\ (client = "None" /\ pc[r] /= "idle") =>
              ~Issued(r, "embedding") /\ query_embedding[r] = <<>>
        /\ emb_reply[r] /= NoEmbeddingReply =>
              /\ query_embedding[r] =
                    IF EmbeddingAnswered(emb_reply[r])
                    THEN emb_reply[r].data[1].embedding
                    ELSE <<>>
              /\ ~EmbeddingAnswered(emb_reply[r]) =>
                    /\ Len(log[r]) >= 1
                    /\ log[r][1].line = "Error getting embedding"
              /\ "Error in search_similar_documents" \in Lines(r) =>
                    search_reply[r] /= NoReply

C8_Witness ==
    \E r \in Reqs :
        /\ pc[r] = "responded"
        /\ emb_reply[r].kind = "ok"
        /\ emb_reply[r].data = <<>>
        /\ query_embedding[r] = <<>>

\* C9: the messages given to the chat model are one system message, then the
\* last min(n, 5) of the n history entries, in order and with role and content
\* unchanged, then one user message.
C9_HistoryCappedToLastFive ==
    \A r \in Reqs :
        messages[r] /= <<>> =>
            LET h == request[r].conversation_history
                n == Len(h)
                k == IF n <= 5 THEN n ELSE 5
                m == messages[r]
            IN  /\ Len(m) = k + 2
                /\ m[1].role = "system"
                /\ m[Len(m)].role = "user"
                /\ \A i \in 1..k : m[i + 1] = h[n - k + i]

C9_Witness ==
    \E r \in Reqs :
        /\ Len(request[r].conversation_history) > 5
        /\ Len(messages[r]) = 7

\* the context block of the user message given to the chat model
SentContext(r) == messages[r][Len(messages[r])].content.context

\* C10: the context block is built from the first min(n, 3) of the n sources,
\* in order and numbered from 1; no source after the third is in it.
C10_ContextFromFirstThree ==
    \A r \in Reqs :
        (messages[r] /= <<>> /\ sources[r] /= <<>>) =>
            LET n == Len(sources[r])
                k == IF n <= 3 THEN n ELSE 3
                e == SentContext(r).entries
            IN  /\ Len(e) = k
                /\ \A i \in 1..k :
                      /\ e[i].num = i
                      /\ e[i].title = sources[r][i].title
                      /\ e[i].content = Take(sources[r][i].content.chars, 200)
                /\ \A j \in 4..n : \A i \in 1..Len(e) :
                      ~(/\ e[i].title = sources[r][j].title
                        /\ e[i].content = Take(sources[r][j].content.chars, 200))

C10_Witness ==
    \E r \in Reqs :
        /\ Len(sources[r]) > 3
        /\ messages[r] /= <<>>
        /\ Len(SentContext(r).entries) = 3

\* the sources the search of r returned (a script that calls chat_with_gpt
\* alone makes no search)
Found(r) == IF request[r].endpoint = "chat_with_gpt" THEN <<>> ELSE sources[r]

\* the raw hits the search call of r was answered with (none when the reply
\* carries no list of hits)
RawHits(r) ==
    IF /\ search_reply[r].kind = "http"
       /\ search_reply[r].json
       /\ "data" \in DOMAIN search_reply[r].body
       /\ search_reply[r].body["data"].type = "list"
    THEN search_reply[r].body["data"].items
    ELSE <<>>

\* the positions of the raw hits that are JSON objects
Parseable(r) == {i \in 1..Len(RawHits(r)) : RawHits(r)[i].dict}

FromHandler(r) == request[r].endpoint \in {"chat", "chat_with_collection"}

\* C11: whatever the provider answers and whatever top_k >= 0 it is called
\* with, search_similar_documents returns at most top_k sources; the chat
\* endpoints call it with top_k = 5, so the sources of a ChatResponse are at
\* most 5.
C11_SourcesWithinTopK ==
    \A r \in Reqs :
        /\ top_k[r] >= 0
        /\ Len(Found(r)) <= top_k[r]
        /\ search_reply[r] /= NoReply => search_data[r].limit = top_k[r]
        /\ FromHandler(r) =>
              /\ top_k[r] = 5
              /\ Len(http[r].sources) <= 5

C11_Witness ==
    \E r \in Reqs :
        /\ pc[r] = "returned"
        /\ top_k[r] = 2
        /\ Cardinality(Parseable(r)) >= 4
        /\ Len(Found(r)) = 2

\* the two field sets: the metadata keys and, with text_content, the output
\* fields
RssKeys == {"article_title", "published_date", "feed_name", "chunk_type",
            "companies", "products", "regulations", "regulatory_bodies"}

FdaKeys == {"company_name", "letter_date", "chunk_type", "chunk_id",
            "violations", "required_actions", "systemic_issues",
            "regulatory_consequences", "product_types", "product_categories"}

KeysOf(collection) == IF collection = "fda_warning_letters" THEN FdaKeys ELSE RssKeys

Range(seq) == {seq[i] : i \in 1..Len(seq)}

\* C12: for every collection other than `fda_warning_letters` (`rss_feeds`,
\* an unrecognized one) the output fields of the search request and the
\* metadata keys of every record are the feed field set; `fda_warning_letters`
\* alone selects the warning-letter field set.
C12_FieldSetByCollection ==
    \A r \in Reqs :
        /\ Issued(r, "search") =>
              Range(search_data[r].outputFields) =
                  KeysOf(search_data[r].collectionName) \cup {"text_content"}
        /\ \A i \in 1..Len(Found(r)) :
              DOMAIN Found(r)[i].metadata = KeysOf(search_data[r].collectionName)

C12_Witness ==
    \E r \in Reqs :
        /\ request[r].collection = "unknown_collection"
        /\ search_data[r].collectionName = "unknown_collection"
        /\ Range(search_data[r].outputFields) = RssKeys \cup {"text_content"}
        /\ Len(Found(r)) >= 2
        /\ DOMAIN Found(r)[1].metadata = RssKeys

\* the positions of the raw hits that are JSON objects, in the reply's order
ParseablePositions(r) ==
    SelectSeq([i \in 1..Len(RawHits(r)) |-> i], LAMBDA i : RawHits(r)[i].dict)

\* the raw hit the j-th returned source was made from
HitOf(r, j) == RawHits(r)[ParseablePositions(r)[j]].f

\* the metadata fields that hold a string, and their placeholders
StringKeys == {"article_title", "published_date", "feed_name", "chunk_type",
               "company_name", "letter_date", "chunk_id"}

Placeholders == {"Unknown Title", "Unknown Date", "Unknown Feed", "Unknown Type",
                 "Unknown Company", "Unknown Chunk"}

\* C13: every record returned by the search has the four keys title, content,
\* metadata and collection; its collection is the collection searched; its
\* metadata has every field of that collection's field set, a field the raw
\* hit lacks being a placeholder string or an empty list.
C13_RecordIsComplete ==
    \A r \in Reqs : \A j \in 1..Len(Found(r)) :
        LET src == Found(r)[j]
            h == HitOf(r, j)
        IN  /\ DOMAIN src = {"title", "content", "metadata", "collection"}
            /\ src.collection = search_data[r].collectionName
            /\ src.collection = Target(request[r])
            /\ \A k \in KeysOf(src.collection) :
                  /\ k \in DOMAIN src.metadata
                  /\ k \in DOMAIN h => src.metadata[k] = h[k]
                  /\ k \notin DOMAIN h =>
                        IF k \in StringKeys
                        THEN src.metadata[k] \in Placeholders
                        ELSE src.metadata[k] = <<>>

C13_Witness ==
    \E r \in Reqs : \E j \in 1..Len(Found(r)) :
        /\ Found(r)[j].collection = "fda_warning_letters"
        /\ HitOf(r, j) = <<>>
        /\ Found(r)[j].metadata.company_name = "Unknown Company"
        /\ Found(r)[j].metadata.violations = <<>>

\* C14 as first stated: for every raw hit of either collection the title is
\* the hit's article title when it has one, otherwise the hit's company name
\* when it has one, otherwise a placeholder.
C14_TitleFromHitAnyCollection ==
    \A r \in Reqs : \A j \in 1..Len(Found(r)) :
        LET h == HitOf(r, j)
            title == Found(r)[j].title
        IN  IF "article_title" \in DOMAIN h THEN title = h["article_title"]
            ELSE IF "company_name" \in DOMAIN h THEN title = h["company_name"]
            ELSE title \in Placeholders

\* C14: the title is the hit's article title when it has one; otherwise, in
\* `fda_warning_letters`, the hit's company name when it has one and "Unknown
\* Company" when not; otherwise, in every other collection, "Unknown Title",
\* whether or not the hit has a company name.
C14_TitleByCollection ==
    \A r \in Reqs : \A j \in 1..Len(Found(r)) :
        LET h == HitOf(r, j)
            title == Found(r)[j].title
        IN  IF "article_title" \in DOMAIN h THEN title = h["article_title"]
            ELSE IF Found(r)[j].collection = "fda_warning_letters"
                 THEN IF "company_name" \in DOMAIN h
                      THEN title = h["company_name"]
                      ELSE title = "Unknown Company"
                 ELSE title = "Unknown Title"

C14_Witness ==
    \E r \in Reqs : \E j \in 1..Len(Found(r)) :
        /\ Found(r)[j].collection = "rss_feeds"
        /\ "article_title" \notin DOMAIN HitOf(r, j)
        /\ "company_name" \in DOMAIN HitOf(r, j)
        /\ Found(r)[j].title = "Unknown Title"

\* the system prompt of a collection type
PromptOf(collection_type) ==
    CASE collection_type = "rss_feeds" -> "news_analysis_prompt"
      [] collection_type = "fda_warning_letters" -> "compliance_violation_prompt"
      [] OTHER -> "generic_prompt"

\* the collection of the first source chat_with_gpt was given: "" when it
\* was given none (None or []) or a first source without the key
FirstCollection(r) ==
    IF sources[r] = <<>> THEN ""
    ELSE IF "collection" \in DOMAIN sources[r][1] THEN sources[r][1].collection
    ELSE ""

\* the number of entries of seq with the role `system`
SystemMessages(seq) == Cardinality({i \in 1..Len(seq) : seq[i].role = "system"})

\* C15: chat_with_gpt chooses exactly one system message and puts it first in
\* the messages given to the chat model: the news-analysis prompt for
\* `rss_feeds`, the compliance-violation prompt for `fda_warning_letters`, the
\* generic prompt for every other collection and for sources that are empty
\* or absent.  It adds no second one: every other system message of the list
\* is an entry of the conversation history, passed on with its role.
C15_SystemPromptByCollectionType ==
    \A r \in Reqs :
        messages[r] /= <<>> =>
            /\ messages[r][1].role = "system"
            /\ messages[r][1].content.text = PromptOf(FirstCollection(r))
            /\ messages[r][1].content.context = EmptyContext
            /\ SystemMessages(messages[r])
                   = 1 + SystemMessages(HistorySlice(request[r].conversation_history))

C15_Witness ==
    \E r \in Reqs :
        /\ request[r].endpoint = "chat_with_gpt"
        /\ request[r].sources = PyNull
        /\ Len(messages[r]) >= 2
        /\ messages[r][1].content.text = "generic_prompt"
        /\ SystemMessages(HistorySlice(request[r].conversation_history)) = 1
        /\ SystemMessages(messages[r]) = 2

\* the context block the debug script built
DebugEntries(r) == context[r].entries

\* seq starts with exactly the first min(Len(chars), n) elements of chars
IsPrefixUpTo(seq, chars, n) ==
    /\ Len(seq) = (IF Len(chars) <= n THEN Len(chars) ELSE n)
    /\ \A j \in 1..Len(seq) : seq[j] = chars[j]

\* the characters of the content of a source, none when it has no content key
ContentChars(src) ==
    IF "content" \in DOMAIN src THEN src.content.chars ELSE <<>>

\* C16: each source in the context block of the prompt gives a header line
\* (its number, its title and the attribution of the collection type) and a
\* content line with exactly the first min(length, 200) characters of its
\* content, none when it has no content key: never more than 200.  The
\* debug-context script takes the first 1200 instead.
C16_ContentCutAt200 ==
    \A r \in Reqs :
        /\ (messages[r] /= <<>> /\ sources[r] /= <<>>) =>
              \A i \in 1..Len(SentContext(r).entries) :
                  LET e == SentContext(r).entries[i]
                  IN  /\ e.num = i
                      /\ e.title = Get(sources[r][i], "title", "Unknown Title")
                      /\ e.label \in {"Company", "Feed"}
                      /\ IsPrefixUpTo(e.content, ContentChars(sources[r][i]), 200)
                      /\ Len(e.content) <= 200
        /\ context[r] /= EmptyContext =>
              /\ Len(DebugEntries(r)) = 1
              /\ IsPrefixUpTo(DebugEntries(r)[1].content,
                              ContentChars(sources[r][1]), 1200)

C16_Witness ==
    \E r \in Reqs :
        /\ FromHandler(r)
        /\ messages[r] /= <<>>
        /\ Len(sources[r]) >= 2
        /\ Len(sources[r][2].content.chars) > 200
        /\ Len(SentContext(r).entries[2].content) = 200

\* the debug-context script has cut a content longer than 1200 characters
C16_DebugWitness ==
    \E r \in Reqs :
        /\ context[r] /= EmptyContext
        /\ Len(sources[r][1].content.chars) > 1200
        /\ Len(DebugEntries(r)[1].content) = 1200

\* a source without a content key has an empty content line
C16_AbsentWitness ==
    \E r \in Reqs :
        /\ messages[r] /= <<>>
        /\ sources[r] /= <<>>
        /\ "content" \notin DOMAIN sources[r][1]
        /\ SentContext(r).entries[1].content = <<>>

\* how many times r has issued the external operation op
Count(r, op) == Cardinality({i \in 1..Len(calls[r]) : calls[r][i].op = op})

ExternalOps == {"embedding", "describe", "load", "search", "chat"}

\* C17: within one chat request each external operation (embedding, describe,
\* load, search, chat completion) is issued at most once, whatever it
\* answered: nothing is retried.
C17_EachCallAtMostOnce ==
    \A r \in Reqs :
        /\ \A op \in ExternalOps : Count(r, op) <= 1
        /\ \A i \in 1..Len(calls[r]) : calls[r][i].op \in ExternalOps

C17_Witness ==
    \E r \in Reqs :
        /\ pc[r] = "responded"
        /\ describe_reply[r].kind = "raise"
        /\ search_reply[r].kind = "raise"
        /\ chat_reply[r].kind = "raise"
        /\ Ops(r) = <<"embedding", "describe", "search", "chat">>

\* the positions in the calls of r of the operations of a kind
PositionsOf(r, ops) == {i \in 1..Len(calls[r]) : calls[r][i].op \in ops}

\* the search stage of r (search_similar_documents) has returned
SearchStageOver(r) ==
    /\ pc[r] \in {"await_chat", "responded"}
    /\ Issued(r, "search") => search_reply[r] /= NoReply

\* C18: the stages of a request run in the order embedding, vector database,
\* chat completion: no vector-database call is issued before the embedding
\* call has returned, the chat-completion call is issued only once the
\* search stage has returned, and it is issued also when the search stage
\* returned no sources.
C18_StagesInOrder ==
    \A r \in Reqs :
        /\ \A i \in PositionsOf(r, {"embedding"}) :
              \A j \in PositionsOf(r, {"describe", "load", "search", "chat"}) : i < j
        /\ \A i \in PositionsOf(r, {"describe", "load", "search"}) :
              \A j \in PositionsOf(r, {"chat"}) : i < j
        /\ pc[r] = "await_embedding" => Ops(r) = <<"embedding">>
        /\ VdbOps(r) /= <<>> =>
              /\ emb_reply[r] /= NoEmbeddingReply
              /\ Ops(r)[1] = "embedding"
        /\ Issued(r, "chat") => SearchStageOver(r)
        /\ pc[r] \in Blocking => ~Issued(r, "chat")
        /\ (client /= "None" /\ SearchStageOver(r) /\ sources[r] = <<>>) =>
              /\ Issued(r, "chat")
              /\ messages[r] /= <<>>

C18_Witness ==
    \E r \in Reqs :
        /\ pc[r] = "responded"
        /\ search_reply[r].kind = "http"
        /\ search_reply[r].status = 200
        /\ RawHits(r) = <<>>
        /\ sources[r] = <<>>
        /\ Ops(r) = <<"embedding", "describe", "search", "chat">>
        /\ http[r].response.kind = "completion"

\* the collection a chat request is to search: the path segment of
\* POST /api/chat/{collection}, the server's default for POST /api/chat
Requested(r) ==
    IF request[r].endpoint = "chat" THEN DEFAULT_COLLECTION
    ELSE request[r].collection

\* C19: POST /api/chat/{collection} does not validate the identifier: the
\* collection name of the describe, load and search requests and the
\* `collection` of every source returned is the path segment as given;
\* POST /api/chat uses the server's default collection.
C19_CollectionPassedThrough ==
    \A r \in Reqs :
        FromHandler(r) =>
            /\ \A i \in 1..Len(calls[r]) :
                  IsVdbOp(calls[r][i].op) => calls[r][i].collectionName = Requested(r)
            /\ Issued(r, "search") => search_data[r].collectionName = Requested(r)
            /\ \A j \in 1..Len(sources[r]) : sources[r][j].collection = Requested(r)
            /\ \A j \in 1..Len(http[r].sources) :
                  http[r].sources[j].collection = Requested(r)

C19_Witness ==
    \E r \in Reqs :
        /\ pc[r] = "responded"
        /\ request[r].endpoint = "chat_with_collection"
        /\ request[r].collection = "unknown_collection"
        /\ Len(calls[r]) = 5
        /\ calls[r][2] = Call("describe", "unknown_collection")
        /\ calls[r][3] = Call("load", "unknown_collection")
        /\ calls[r][4] = Call("search", "unknown_collection")
        /\ Len(http[r].sources) >= 2
        /\ http[r].sources[2].collection = "unknown_collection"

\* the search of r is over and its search call was answered with hits
SearchAnswered(r) ==
    /\ pc[r] \notin {"idle", "await_embedding", "in_describe", "in_load", "in_search"}
    /\ search_reply[r] /= NoReply
    /\ ~SearchFailed(search_reply[r])

\* the content search_similar_documents gives the record of a raw hit
ContentOf(h) ==
    IF "text_content" \in DOMAIN h THEN h["text_content"] ELSE PyStr(<<>>)

\* C20: the sources returned are the records of the provider's hits in the
\* provider's order: the j-th source is made from the j-th hit that parses,
\* a hit that does not parse is left out and the hits after it are kept, and
\* the result is the first top_k of these records.
C20_ProviderOrderKept ==
    \A r \in Reqs :
        SearchAnswered(r) =>
            /\ Len(Found(r)) =
                  (IF Cardinality(Parseable(r)) <= top_k[r]
                   THEN Cardinality(Parseable(r)) ELSE top_k[r])
            /\ \A j \in 1..Len(Found(r)) :
                  LET h == HitOf(r, j)
                  IN  /\ Found(r)[j].content = ContentOf(h)
                      /\ \A k \in DOMAIN Found(r)[j].metadata \cap DOMAIN h :
                            Found(r)[j].metadata[k] = h[k]

C20_Witness ==
    \E r \in Reqs :
        /\ SearchAnswered(r)
        /\ Len(Found(r)) = 3
        /\ Cardinality(Parseable(r)) > 3
        /\ ~RawHits(r)[2].dict
        /\ ParseablePositions(r)[2] = 3
        /\ Found(r)[1].content = ContentOf(RawHits(r)[1].f)
        /\ Found(r)[2].content = ContentOf(RawHits(r)[3].f)
        /\ Found(r)[1].content /= Found(r)[2].content

\* r asked one of the two endpoints that list the latest items
AskedLatest(r) ==
    request[r].endpoint \in {"get_latest_rss_feeds", "get_latest_warning_letters"}

\* the list a latest endpoint answered with
LatestItems(r) ==
    IF request[r].endpoint = "get_latest_rss_feeds"
    THEN body[r].json.feeds ELSE body[r].json.warning_letters

\* the limit of the query of r
AskedLimit(r) == request[r].query.limit

\* C21: for every integer limit the two latest endpoints answer 200 with
\* max(0, min(limit, 5)) items numbered 1, 2, ...: 5 items for every limit
\* above 5 (100 too), the empty list for a zero or negative limit.
C21_LatestClampedToFive ==
    \A r \in Reqs :
        (AskedLatest(r) /\ "limit" \in DOMAIN request[r].query) =>
            LET n == IF AskedLimit(r) <= 0 THEN 0
                     ELSE IF AskedLimit(r) >= 5 THEN 5 ELSE AskedLimit(r)
                tag == IF request[r].endpoint = "get_latest_rss_feeds"
                       THEN "feed_" ELSE "wl_"
            IN  /\ body[r].status = 200
                /\ Len(LatestItems(r)) = n
                /\ \A i \in 1..n : LatestItems(r)[i].id = tag \o ToString(i)

C21_Witness ==
    \E r, q \in Reqs :
        /\ AskedLatest(r) /\ AskedLatest(q)
        /\ request[r].query = [limit |-> 100]
        /\ Len(LatestItems(r)) = 5
        /\ request[q].query = [limit |-> -3]
        /\ LatestItems(q) = <<>>

\* r asked GET /api/health and was answered
HealthAnswered(r) == request[r].endpoint = "health_check" /\ pc[r] = "responded"

\* C22: GET /api/health answers 200 with status "healthy" in every state:
\* with or without a client, and whatever the embedding, vector-database and
\* chat services have answered the chat request in progress; it issues no
\* external call.
C22_HealthAlwaysHealthy ==
    \A r \in Reqs :
        HealthAnswered(r) =>
            /\ body[r].status = 200
            /\ body[r].json.status = "healthy"
            /\ calls[r] = <<>>
            /\ log[r] = <<>>

C22_Witness ==
    \E r, q \in Reqs :
        /\ HealthAnswered(r)
        /\ body[r].json.status = "healthy"
        /\ pc[q] = "await_chat"
        /\ emb_reply[q].kind = "ok"
        /\ search_reply[q].kind = "raise"

\* the health request answered without a client
C22_NoClientWitness ==
    \E r \in Reqs : HealthAnswered(r) /\ client = "None"

\* the attribution label of the header lines of a collection type
LabelOf(collection_type) ==
    IF collection_type = "fda_warning_letters" THEN "Company" ELSE "Feed"

\* C23: the collection type is that of the first source alone: the header
\* line of each of the up to 3 records has the format of the first record's
\* collection (Company/Date or Feed/Date), the block is headed by it and the
\* system prompt is the one of it, also when a later record is of another
\* collection.
C23_TypeFromFirstSourceOnly ==
    \A r \in Reqs :
        (messages[r] /= <<>> /\ sources[r] /= <<>>) =>
            LET first == Get(sources[r][1], "collection", "general")
                block == SentContext(r)
            IN  /\ block.header = first
                /\ \A i \in 1..Len(block.entries) :
                      /\ block.entries[i].label = LabelOf(first)
                      /\ block.entries[i].who =
                            Get(Get(sources[r][i], "metadata", <<>>),
                                IF first = "fda_warning_letters"
                                THEN "company_name" ELSE "feed_name",
                                IF first = "fda_warning_letters"
                                THEN "Unknown Company" ELSE "Unknown Feed")
                /\ messages[r][1].content = PlainText(PromptOf(first))

C23_Witness ==
    \E r \in Reqs :
        /\ Len(messages[r]) >= 2
        /\ Len(sources[r]) = 2
        /\ sources[r][1].collection = "fda_warning_letters"
        /\ sources[r][2].collection = "rss_feeds"
        /\ SentContext(r).entries[2].label = "Company"
        /\ SentContext(r).entries[2].who = "Unknown Company"
        /\ messages[r][1].content.text = "compliance_violation_prompt"

\* r has issued an external call and waits for its reply
Waiting == {"await_embedding", "in_describe", "in_load", "in_search", "await_chat"}

\* C24: while a request waits on any of its external calls (embedding,
\* describe, load, search, chat completion), the handler of another request
\* that has arrived can run.
C24_OthersRunWhileWaiting ==
    \A r \in Reqs : \A q \in Reqs \ {r} :
        (pc[r] \in Waiting /\ pc[q] = "idle") => ENABLED Receive(q)

\* what does hold: the handler of another request can run while a request
\* waits on an awaited call (embedding, chat completion), and cannot while it
\* is inside a requests.post (describe, load, search)
OthersRunWhileAwaiting ==
    \A r \in Reqs : \A q \in Reqs \ {r} :
        pc[q] = "idle" =>
            /\ pc[r] \in {"await_embedding", "await_chat"} => ENABLED Receive(q)
            /\ pc[r] \in Blocking => ~ENABLED Receive(q)

\* what the search of r returns, from the client, the request of r and the
\* replies to the calls of r
OwnSources(r) ==
    IF client = "None" THEN <<>>
    ELSE IF GetEmbedding(emb_reply[r]).value = <<>> THEN <<>>
    ELSE SearchResult(search_reply[r], Target(request[r]), TopK).value

\* the answer to r, from the same
OwnAnswer(r) ==
    LET prep == ChatPrepare(client, request[r].message,
                            CopyHistory(request[r].conversation_history),
                            OwnSources(r))
    IN  IF prep.call
        THEN Respond(ChatResult(chat_reply[r]), OwnSources(r)).http
        ELSE Respond(prep.ret, OwnSources(r)).http

\* C25: no step of a handler, whatever its outcome, changes the state of the
\* process (the client handle, the configuration read from the environment
\* at import); so with two
\* requests interleaved in every way, the answer to a request is determined
\* by its own input and the replies to its own calls, and a request that
\* failed leaves the serving of the other as it was.
C25_NoProcessStateModified ==
    /\ [][client' = client /\ env' = env]_vars
    /\ [](\A r \in Reqs : pc[r] = "responded" => http[r] = OwnAnswer(r))

C25_Witness ==
    \E r \in Reqs : \E q \in Reqs \ {r} :
        /\ pc[r] = "responded"
        /\ http[r].status = 500
        /\ pc[q] = "responded"
        /\ http[q].status = 200
        /\ http[q].response.kind = "completion"
        /\ Len(http[q].sources) = 2
        /\ client = "AsyncOpenAI"

\* the describe call of r was answered with HTTP 200 and a body that gives the
\* load state "LoadStateNotLoad"
DescribedNotLoaded(r) ==
    /\ describe_reply[r].kind = "http"
    /\ describe_reply[r].status = 200
    /\ describe_reply[r].json
    /\ "data" \in DOMAIN describe_reply[r].body
    /\ "load" \in DOMAIN describe_reply[r].body.data
    /\ describe_reply[r].body.data.load = "LoadStateNotLoad"

\* C26: a load call has been issued exactly when the describe call returned
\* HTTP 200 with the load state "LoadStateNotLoad"; with any other answer
\* (another state, no state, another status, no JSON, a failed connection)
\* and before the answer, there is no load call. It is issued once, right
\* after the describe call.
C26_LoadIffNotLoaded ==
    \A r \in Reqs :
        /\ Issued(r, "load") <=> DescribedNotLoaded(r)
        /\ Count(r, "load") <= 1
        /\ Issued(r, "load") =>
              \E i \in 1..(Len(calls[r]) - 1) :
                  /\ calls[r][i].op = "describe"
                  /\ calls[r][i + 1].op = "load"
        /\ load_reply[r] /= NoReply => Issued(r, "load")

C26_Witness ==
    \E r \in Reqs :
        /\ pc[r] = "responded"
        /\ DescribedNotLoaded(r)
        /\ Ops(r) = <<"embedding", "describe", "load", "search", "chat">>
        /\ load_reply[r].status = 500
        /\ ~load_success[r]

\* the describe call answered with another load state: no load call
C26_OtherStateWitness ==
    \E r \in Reqs :
        /\ pc[r] = "responded"
        /\ describe_reply[r].status = 200
        /\ describe_reply[r].json
        /\ LoadState(describe_reply[r].body) = "LoadStateLoading"
        /\ Ops(r) = <<"embedding", "describe", "search", "chat">>

\* what search_similar_documents returned to the handler of r: the records
\* made from the reply to its search call, [] when it made none
Searched(r) ==
    IF search_reply[r] = NoReply THEN <<>>
    ELSE SearchResult(search_reply[r], Target(request[r]), TopK).value

\* the chat-completion call of r failed and chat_with_gpt returned its error
\* text
ChatFailed(r) == chat_reply[r].kind = "raise"

\* C27: the sources of a 200 answer are the sequence the search returned,
\* whole and in order (up to 5 records, of which the prompt has at most 3);
\* when the chat-completion call fails the answer is still 200 with the
\* error text and these sources.
C27_SourcesReturnedAsFound ==
    \A r \in Reqs :
        (pc[r] = "responded" /\ request[r].endpoint \in {"chat", "chat_with_collection"}) =>
            /\ http[r].status = 200 =>
                  /\ http[r].sources = Searched(r)
                  /\ Len(http[r].sources) <= TopK
            /\ ChatFailed(r) =>
                  /\ http[r].status = 200
                  /\ http[r].response.kind = "error"
                  /\ http[r].sources = Searched(r)
                  /\ Len(SentContext(r).entries) = Min(Len(Searched(r)), ContextSources)

C27_Witness ==
    \E r \in Reqs :
        /\ pc[r] = "responded"
        /\ ChatFailed(r)
        /\ http[r].status = 200
        /\ Len(http[r].sources) = 5
        /\ Len(SentContext(r).entries) = 3
        /\ http[r].sources[5].title = "Unknown Title"

\* the user message chat_with_gpt sent for r: the last of the list
UserMessage(r) == messages[r][Len(messages[r])]

\* C28: the user message of a chat-completion call is the request's message
\* alone, with no context block, when chat_with_gpt was given no sources (an
\* empty list or None); when it was given sources it is the message followed
\* by the context block built from them.
C28_UserMessageByContext ==
    \A r \in Reqs :
        messages[r] /= <<>> =>
            /\ UserMessage(r).role = "user"
            /\ UserMessage(r).content.text = request[r].message
            /\ sources[r] = <<>> =>
                  UserMessage(r).content =
                      [text |-> request[r].message,
                       context |-> [header |-> "", entries |-> <<>>]]
            /\ sources[r] /= <<>> =>
                  /\ UserMessage(r).content.context.header =
                        Get(sources[r][1], "collection", "general")
                  /\ Len(UserMessage(r).content.context.entries) =
                        Min(Len(sources[r]), ContextSources)

C28_Witness ==
    \E r \in Reqs :
        /\ request[r].endpoint = "chat_with_gpt"
        /\ request[r].sources = PyNull
        /\ request[r].message /= ""
        /\ Len(messages[r]) = 2
        /\ UserMessage(r).content = PlainText(request[r].message)

\* the other case: a handler's search found records and the block follows
\* the message
C28_ContextWitness ==
    \E r \in Reqs :
        /\ request[r].endpoint = "chat"
        /\ Len(sources[r]) = 2
        /\ messages[r] /= <<>>
        /\ UserMessage(r).content.text = request[r].message
        /\ Len(UserMessage(r).content.context.entries) = 2

\* the positions of the returned sources whose raw hit has no article title
Untitled(r) == {j \in 1..Len(Found(r)) : "article_title" \notin DOMAIN HitOf(r, j)}

\* C30: a source made from a hit without an article title has, in
\* `fda_warning_letters`, the company name of its metadata as title (which is
\* "Unknown Company" when the hit has no company name), and in every other
\* collection the title "Unknown Title", whether or not the hit has a
\* company name: the metadata of those collections has no company name.
C30_UntitledHitTitle ==
    \A r \in Reqs : \A j \in Untitled(r) :
        IF Found(r)[j].collection = "fda_warning_letters"
        THEN /\ Found(r)[j].title = Found(r)[j].metadata.company_name
             /\ "company_name" \notin DOMAIN HitOf(r, j) =>
                   Found(r)[j].title = "Unknown Company"
        ELSE /\ Found(r)[j].title = "Unknown Title"
             /\ "company_name" \notin DOMAIN Found(r)[j].metadata

C30_Witness ==
    \E r \in Reqs : \E j \in Untitled(r) :
        /\ Found(r)[j].collection = "fda_warning_letters"
        /\ "company_name" \notin DOMAIN HitOf(r, j)
        /\ Found(r)[j].title = "Unknown Company"
        /\ \E k \in Untitled(r) :
              /\ "company_name" \in DOMAIN HitOf(r, k)
              /\ Found(r)[k].title = HitOf(r, k)["company_name"]

\* the other collections: a hit with a company name and no article title
C30_OtherCollectionWitness ==
    \E r \in Reqs : \E j \in Untitled(r) :
        /\ Found(r)[j].collection = "unknown_collection"
        /\ "company_name" \in DOMAIN HitOf(r, j)
        /\ Found(r)[j].title = "Unknown Title"

\* C29: every chat request that has arrived is answered in the end, with HTTP
\* 200 or 500, provided each of its external calls returns or fails in the
\* end; this with two requests in flight in every order the event loop allows.
C29_EveryRequestAnswered ==
    \A r \in Reqs :
        (request[r] /= NoRequest) ~>
            (pc[r] = "responded" /\ http[r].status \in {200, 500})

C29_Witness ==
    /\ \A r \in Reqs : pc[r] = "responded"
    /\ http[1].status = 500
    /\ Ops(1) = <<"embedding", "describe", "load", "search", "chat">>
    /\ http[2].status = 200
    /\ chat_reply[2].kind = "raise"

=============================================================================
